---------------------------- MODULE Spec2Model ----------------------------
(***************************************************************************)
(* A model of signingscript's signing core: signingscript/task.py          *)
(* (format normalisation, file-list verification, token acquisition, the   *)
(* per-format signing chain) and signingscript/sign.py (the signing        *)
(* strategies, the Widevine batch and the archive codec).                  *)
(*                                                                         *)
(* Each group of operations has its own specification over the same        *)
(* variables: the variables of the groups a specification does not         *)
(* exercise stay at their idle values.                                     *)
(***************************************************************************)
EXTENDS Naturals, Sequences, FiniteSets, TLC

VARIABLES
    \* ---- _sort_formats called on its own (task.py 157-174)
    formats,        \* the python list handed to _sort_formats (mutated in place)
    formats_in,     \* the list as it was when the call was made
    sf_pc,          \* "idle" | "call" | "returned"
    \* ---- build_filelist_dict (task.py 178-223)
    upstream,       \* context.task['payload']['upstreamArtifacts'] (formats lists are mutated)
    upstream_in,    \* the upstream artifacts as they were when the call was made
    on_disk,        \* the full paths for which os.path.exists is true
    all_signing_formats_set,    \* set(all_signing_formats)
    bfl_a,          \* index of the artifact the outer loop is at
    bfl_p,          \* index of the path the inner loop is at
    messages,       \* the list of violation messages
    filelist_dict,  \* path -> [full_path, formats]; formats is a reference to an artifact's list
    bfl_pc,         \* "idle" | "loop" | "returned" | "raised"
    \* ---- get_token (task.py 68-107)
    roster,         \* context.signing_servers: certificate tier -> list of servers
    cert_type,      \* the certificate tier asked for
    tok_formats,    \* the signing_formats argument
    tok_servers,    \* the local list signing_servers, after the shuffle
    tok_i,          \* position of the for loop in tok_servers
    token,          \* the local variable token
    replies,        \* what each backend asked so far has answered
    requests,       \* the backends asked, in the order they were asked
    token_file,     \* content of output_file
    tok_error,      \* the exception get_token raised
    tok_pc,         \* "idle" | "start" | "loop" | "write" | "done" | "raised"
    \* ---- sign (task.py 111-153) and the signing strategies (sign.py)
    disk,           \* the files that exist: path -> content
    disk_in,        \* the files as they were when sign was called
    sign_path,      \* the path argument of sign
    sign_formats,   \* the signing_formats argument of sign
    sign_i,         \* position of the for loop in sign_formats
    signed_file,    \* the local variable signed_file
    sign_pc,        \* "idle" | "loop" | "awaiting" | "done" | "raised"
    sign_error,     \* the exception sign raised
    frame,          \* the strategy call in progress: [fn, from_, fmt, pc, ret, err]
    locals,         \* its local variables: [tmp_dir, files, k, sig_files, container]
    tasks,          \* the member signings of a Widevine batch: [from_, fmt, state, cmd, seq]
    tmp_count,      \* how many scratch directories tempfile.mkdtemp has made
    calls,          \* the strategy calls made, in order: [fn, arg, fmt]
    returns,        \* the values the strategy calls returned, in order
    cmds,           \* the external commands launched, in order: [cmd, status]
    oplog,          \* the scratch-directory and archive operations done, in order
    \* ---- a helper function of sign.py called on its own
    call_fn,        \* the name of the function called
    call_args,      \* its arguments
    call_result,    \* what it returned or raised: [value, error]
    call_pc         \* "idle" | "call" | "done"

sfVars == <<formats, formats_in, sf_pc>>

bflVars == <<upstream, upstream_in, on_disk, all_signing_formats_set, bfl_a, bfl_p,
             messages, filelist_dict, bfl_pc>>

tokVars == <<roster, cert_type, tok_formats, tok_servers, tok_i, token, replies, requests,
             token_file, tok_error, tok_pc>>

signVars == <<disk, disk_in, sign_path, sign_formats, sign_i, signed_file, sign_pc, sign_error,
              frame, locals, tasks, tmp_count, calls, returns, cmds, oplog>>

callVars == <<call_fn, call_args, call_result, call_pc>>

vars == <<sfVars, bflVars, tokVars, signVars, callVars>>

\* What the actions of one group leave unchanged: the other groups.
sfOther == <<bflVars, tokVars, signVars, callVars>>

bflOther == <<sfVars, tokVars, signVars, callVars>>

tokOther == <<sfVars, bflVars, signVars, callVars>>

signOther == <<sfVars, bflVars, tokVars, callVars>>

callOther == <<sfVars, bflVars, tokVars, signVars>>

(***************************************************************************)
(* Generic sequence helpers.                                               *)
(***************************************************************************)
Range(s) == {s[i] : i \in 1..Len(s)}

\* Index of the first occurrence of x in s (x must occur).
FirstIndex(s, x) == CHOOSE i \in 1..Len(s) : s[i] = x /\ \A j \in 1..(i-1) : s[j] # x

\* list.remove(x): drop the first occurrence of x.
ListRemove(s, x) ==
    LET k == FirstIndex(s, x)
    IN  [i \in 1..(Len(s)-1) |-> IF i < k THEN s[i] ELSE s[i+1]]

\* Number of occurrences of x in s.
Count(s, x) == Cardinality({i \in 1..Len(s) : s[i] = x})

\* All sequences over S of length at most n.
SeqsUpTo(S, n) == UNION {[1..k -> S] : k \in 0..n}

\* All sequences over S of length at most n in which no element repeats.
DistinctSeqsUpTo(S, n) ==
    {s \in SeqsUpTo(S, n) : \A i, j \in 1..Len(s) : i # j => s[i] # s[j]}

(***************************************************************************)
(* Format identifiers and the dispatch table (task.py 21-32).              *)
(***************************************************************************)
\* The identifiers used as inputs.  "mar" and "sha2signcodestub" are not keys
\* of FORMAT_TO_SIGNING_FUNCTION.
FormatIds == {"gpg", "jar", "macapp", "sha2signcode", "mar", "widevine", "widevine_blessed"}

\* Length bound of the format lists given to _sort_formats.
MaxFormats == 3

(***************************************************************************)
(* _sort_formats (task.py 157-174).                                        *)
(***************************************************************************)
\* The tuple the loop of _sort_formats runs over, in its order.
LAST_FORMATS == <<"widevine", "widevine_blessed", "gpg">>

\* Mutant: the format is appended without removing it first.
MoveLast_NoRemove(fs, fmt) ==
    IF fmt \in Range(fs) THEN Append(fs, fmt) ELSE fs

\* One iteration of the loop: `if fmt in formats: remove; append`.
MoveLast(fs, fmt) ==
    IF fmt \in Range(fs) THEN Append(ListRemove(fs, fmt), fmt) ELSE fs

\* Mutant: gpg is moved before the widevine formats are.
sort_formats_GpgFirst(fs) ==
    MoveLast(MoveLast(MoveLast(fs, "gpg"), "widevine"), "widevine_blessed")

RECURSIVE SortLoop(_, _)
SortLoop(fs, k) ==
    IF k > Len(LAST_FORMATS) THEN fs
    ELSE SortLoop(MoveLast(fs, LAST_FORMATS[k]), k + 1)

_sort_formats(fs) == SortLoop(fs, 1)

(***************************************************************************)
(* Idle values: what the variables of a group hold in the specifications   *)
(* that do not exercise the group.                                         *)
(***************************************************************************)
SfIdle == formats = <<>> /\ formats_in = <<>> /\ sf_pc = "idle"

BflIdle ==
    /\ upstream = <<>> /\ upstream_in = <<>> /\ on_disk = {}
    /\ all_signing_formats_set = {} /\ bfl_a = 0 /\ bfl_p = 0
    /\ messages = <<>> /\ filelist_dict = <<>> /\ bfl_pc = "idle"

TokIdle ==
    /\ roster = <<>> /\ cert_type = "" /\ tok_formats = <<>> /\ tok_servers = <<>>
    /\ tok_i = 0 /\ token = <<>> /\ replies = <<>> /\ requests = <<>>
    /\ token_file = <<>> /\ tok_error = "" /\ tok_pc = "idle"

SignIdle ==
    /\ disk = <<>> /\ disk_in = <<>> /\ sign_path = <<>> /\ sign_formats = <<>>
    /\ sign_i = 0 /\ signed_file = <<>> /\ sign_pc = "idle" /\ sign_error = ""
    /\ frame = <<>> /\ locals = <<>> /\ tasks = <<>> /\ tmp_count = 0
    /\ calls = <<>> /\ returns = <<>> /\ cmds = <<>> /\ oplog = <<>>

CallIdle == call_fn = "" /\ call_args = <<>> /\ call_result = <<>> /\ call_pc = "idle"

(***************************************************************************)
(* Specification SpecFormats: _sort_formats applied to every bounded list  *)
(* of format identifiers.                                                  *)
(***************************************************************************)
InitFormats ==
    /\ BflIdle /\ TokIdle /\ SignIdle /\ CallIdle
    /\ formats \in SeqsUpTo(FormatIds, MaxFormats)
    /\ formats_in = formats
    /\ sf_pc = "call"

SortFormats ==
    /\ sf_pc = "call"
    /\ formats' = _sort_formats(formats)
    /\ sf_pc' = "returned"
    /\ UNCHANGED <<formats_in, sfOther>>

NextFormats == SortFormats

SpecFormats == InitFormats /\ [][NextFormats]_vars

(***************************************************************************)
(* build_filelist_dict (task.py 178-223).                                  *)
(***************************************************************************)
\* Bound on the number of upstream artifacts of a task.
MaxArtifacts == 2

\* The taskId of the k-th upstream artifact.
TaskIdOf(k) == <<"task", k>>

\* Relative paths an artifact can list (at least one, none repeated).
PathChoices == {<<"p1">>, <<"p1", "p2">>}

\* Format lists an artifact can request (none repeated).
FormatChoices == {<<"jar">>, <<"gpg", "jar">>, <<"widevine", "jar">>}

\* The sets of formats the task scopes can allow.
AllowedChoices == {{"jar", "gpg", "widevine"}, {"jar", "gpg"}, {"jar"}}

UpstreamChoices ==
    UNION {
        {[k \in 1..n |-> [taskId |-> TaskIdOf(k), paths |-> ps[k], formats |-> fs[k]]] :
            ps \in [1..n -> PathChoices], fs \in [1..n -> FormatChoices]}
        : n \in 1..MaxArtifacts}

\* os.path.join(work_dir, 'cot', taskId, path) for a relative path.
FullPath(taskId, path) == <<"work_dir", "cot", taskId, path>>

AllFullPaths(up) ==
    UNION {{FullPath(up[a].taskId, up[a].paths[i]) : i \in 1..Len(up[a].paths)} :
            a \in DOMAIN up}

\* formats_set.difference(all_signing_formats_set)
IllegalFormats(fs) == Range(fs) \ all_signing_formats_set

MissingMessage(art, path) ==
    [kind |-> "missing", taskId |-> art.taskId, path |-> path, illegal |-> {}]

IllegalMessage(art, path) ==
    [kind |-> "illegal", taskId |-> art.taskId, path |-> path,
     illegal |-> IllegalFormats(art.formats)]

\* The messages one iteration of the inner loop appends (lines 209-216).
IterMessages(art, path) ==
    (IF FullPath(art.taskId, path) \notin on_disk
        THEN <<MissingMessage(art, path)>> ELSE <<>>)
    \o
    (IF ~(Range(art.formats) \subseteq all_signing_formats_set)
        THEN <<IllegalMessage(art, path)>> ELSE <<>>)

\* dict item assignment d[k] = v.
DictSet(d, k, v) == [x \in (DOMAIN d) \cup {k} |-> IF x = k THEN v ELSE d[x]]

InitFilelist ==
    /\ SfIdle /\ TokIdle /\ SignIdle /\ CallIdle
    /\ upstream \in UpstreamChoices
    /\ upstream_in = upstream
    /\ on_disk \in SUBSET AllFullPaths(upstream)
    /\ all_signing_formats_set \in AllowedChoices
    /\ bfl_a = 1 /\ bfl_p = 1
    /\ messages = <<>>
    /\ filelist_dict = <<>>
    /\ bfl_pc = "loop"

\* Mutant: the loop raises at the first violating path.
BflLoopDone_FailFast == bfl_a > Len(upstream) \/ messages # <<>>

\* The nested for loops have run over every path of every artifact.
BflLoopDone == bfl_a > Len(upstream)

\* One iteration of the inner loop (lines 204-220).  The entry's formats are
\* the list object _sort_formats returns, which is the artifact's own list,
\* sorted in place: filelist_dict holds a reference to it.
BflIter ==
    /\ bfl_pc = "loop"
    /\ ~BflLoopDone
    /\ LET art  == upstream[bfl_a]
           path == art.paths[bfl_p]
       IN  /\ messages' = messages \o IterMessages(art, path)
           /\ upstream' = [upstream EXCEPT ![bfl_a].formats = _sort_formats(art.formats)]
           /\ filelist_dict' = DictSet(filelist_dict, path,
                                 [full_path |-> FullPath(art.taskId, path),
                                  formats_of |-> bfl_a])
           /\ IF bfl_p < Len(art.paths)
                 THEN bfl_p' = bfl_p + 1 /\ bfl_a' = bfl_a
                 ELSE bfl_p' = 1 /\ bfl_a' = bfl_a + 1
    /\ UNCHANGED <<upstream_in, on_disk, all_signing_formats_set, bfl_pc, bflOther>>

\* Lines 221-223: raise TaskVerificationError(messages) or return.
BflFinish ==
    /\ bfl_pc = "loop"
    /\ BflLoopDone
    /\ bfl_pc' = IF messages # <<>> THEN "raised" ELSE "returned"
    /\ UNCHANGED <<upstream, upstream_in, on_disk, all_signing_formats_set, bfl_a, bfl_p,
                   messages, filelist_dict, bflOther>>

\* The dictionary build_filelist_dict returns, its list references resolved.
FilelistResult ==
    [p \in DOMAIN filelist_dict |->
        [full_path |-> filelist_dict[p].full_path,
         formats   |-> upstream[filelist_dict[p].formats_of].formats]]

NextFilelist == BflIter \/ BflFinish

SpecFilelist == InitFilelist /\ [][NextFilelist]_vars

(***************************************************************************)
(* get_suitable_signing_servers (sign.py 68-82) and get_token (task.py     *)
(* 68-107).                                                                *)
(***************************************************************************)
\* Bound on the number of backends of the tier that is varied.
MaxServers == 3

DEP == "project:releng:signing:cert:dep-signing"

RELEASE == "project:releng:signing:cert:release-signing"

\* The backends a roster is built from: SigningServer(server, user, password, formats).
DepServers ==
    {[server |-> "s1", formats |-> {"gpg", "sha2signcode"}],
     [server |-> "s2", formats |-> {"jar"}],
     [server |-> "s3", formats |-> {"gpg", "jar"}],
     [server |-> "s5", formats |-> {"gpg"}]}

ReleaseServers == <<[server |-> "s4", formats |-> {"gpg"}]>>

RosterChoices ==
    {[t \in {DEP, RELEASE} |-> IF t = DEP THEN d ELSE ReleaseServers] :
        d \in DistinctSeqsUpTo(DepServers, MaxServers)}

TokenFormatChoices == {<<"gpg">>, <<"jar", "gpg">>, <<"mar">>}

\* Values of the local variable token: None, the empty text, a token text.
NoneToken == <<>>

EmptyToken == <<"">>

TokenFrom(server) == <<"token", server>>

\* What a retry_request can end in: a token text, an empty text, a
\* ScriptWorkerException, an exception of another class.
ReplyKinds == {"token", "empty", "ScriptWorkerException", "OtherException"}

\* Mutant: every backend of the tier suits, whatever its formats.
get_suitable_signing_servers_AllFormats(servers, tier, fmts) == servers[tier]

\* [s for s in signing_servers[cert_type] if set(signing_formats) & set(s.formats)]
get_suitable_signing_servers(servers, tier, fmts) ==
    LET Suits(s) == (Range(fmts) \cap s.formats) # {}
    IN  SelectSeq(servers[tier], Suits)

\* The orders random.shuffle can leave a list in.
Shuffles(list) ==
    {p \in [1..Len(list) -> Range(list)] :
        \A x \in Range(list) : Count(p, x) = Count(list, x)}

InitToken ==
    /\ SfIdle /\ BflIdle /\ SignIdle /\ CallIdle
    /\ roster \in RosterChoices
    /\ cert_type \in {DEP, RELEASE}
    /\ tok_formats \in TokenFormatChoices
    /\ tok_servers = <<>>
    /\ tok_i = 0
    /\ token = NoneToken
    /\ replies = <<>>
    /\ requests = <<>>
    /\ token_file = <<"stale">>
    /\ tok_error = ""
    /\ tok_pc = "start"

\* Mutant: the list shuffled is the roster's own list of the tier.
RosterAfterShuffle_InPlace(servers, tier, shuffled) == [servers EXCEPT ![tier] = shuffled]

\* context.signing_servers after random.shuffle(signing_servers): the list
\* shuffled is the new list the comprehension of sign.py 82 built, so the
\* roster's lists are not touched.
RosterAfterShuffle(servers, tier, shuffled) == servers

\* Lines 82-91: select the suitable backends into a new list and shuffle it.
GetTokenStart ==
    /\ tok_pc = "start"
    /\ tok_servers' \in Shuffles(get_suitable_signing_servers(roster, cert_type, tok_formats))
    /\ roster' = RosterAfterShuffle(roster, cert_type, tok_servers')
    /\ tok_i' = 1
    /\ tok_pc' = "loop"
    /\ UNCHANGED <<cert_type, tok_formats, token, replies, requests, token_file,
                   tok_error, tokOther>>

\* Mutant: the loop goes on to the next backend after a token as well.
AfterReply_NoBreak(kind) ==
    CASE kind \in {"token", "empty", "ScriptWorkerException"} -> "loop"
      [] OTHER -> "raised"

\* Mutant: a ScriptWorkerException ends the acquisition instead of moving on.
AfterReply_NoFailover(kind) ==
    CASE kind = "token" -> "write"
      [] kind = "empty" -> "loop"
      [] OTHER -> "raised"

\* Where the loop body goes after a reply (lines 96-103): break on a truthy
\* token, next backend on a falsy token or a ScriptWorkerException; any other
\* exception leaves get_token.
AfterReply(kind) ==
    CASE kind = "token" -> "write"
      [] kind = "empty" -> "loop"
      [] kind = "ScriptWorkerException" -> "loop"
      [] OTHER -> "raised"

\* One iteration of the for loop (lines 92-103): one retry_request to the
\* backend the loop is at.
TokenRequest ==
    /\ tok_pc = "loop"
    /\ tok_i <= Len(tok_servers)
    /\ \E kind \in ReplyKinds :
        LET s == tok_servers[tok_i].server
        IN  /\ requests' = Append(requests, s)
            /\ replies' = DictSet(replies, s, kind)
            /\ token' = CASE kind = "token" -> TokenFrom(s)
                          [] kind = "empty" -> EmptyToken
                          [] OTHER -> token
            /\ tok_pc' = AfterReply(kind)
            /\ tok_error' = IF AfterReply(kind) = "raised" THEN kind ELSE tok_error
            /\ tok_i' = IF AfterReply(kind) = "loop" THEN tok_i + 1 ELSE tok_i
    /\ UNCHANGED <<roster, cert_type, tok_formats, tok_servers, token_file, tokOther>>

\* Lines 104-105: the for loop ran out of backends without a break.
TokenLoopElse ==
    /\ tok_pc = "loop"
    /\ tok_i > Len(tok_servers)
    /\ tok_pc' = "raised"
    /\ tok_error' = "SigningServerError"
    /\ UNCHANGED <<roster, cert_type, tok_formats, tok_servers, tok_i, token, replies,
                   requests, token_file, tokOther>>

\* Lines 106-107: write the token to output_file.
TokenWrite ==
    /\ tok_pc = "write"
    /\ token_file' = token
    /\ tok_pc' = "done"
    /\ UNCHANGED <<roster, cert_type, tok_formats, tok_servers, tok_i, token, replies,
                   requests, tok_error, tokOther>>

NextToken == GetTokenStart \/ TokenRequest \/ TokenLoopElse \/ TokenWrite

SpecToken == InitToken /\ [][NextToken]_vars

(***************************************************************************)
(* Paths.  A path is [dir, stem, exts]: the directory components, the base *)
(* name up to its first dot, and the dotted suffixes of the base name, so  *)
(* that foo.tar.gz in cot/ is [<<"cot">>, "foo", <<".tar", ".gz">>].       *)
(***************************************************************************)
Path(dir, stem, exts) == [dir |-> dir, stem |-> stem, exts |-> exts]

\* "{}.sig".format(p), "{}.asc".format(p): the text with a suffix appended.
AddSuffix(p, suffix) == [p EXCEPT !.exts = Append(@, suffix)]

\* os.path.splitext(p)[1]: the last dotted suffix of the base name, or "".
SplitExt(p) == IF p.exts = <<>> THEN "" ELSE p.exts[Len(p.exts)]

\* os.path.splitext(p)[0].
SplitBase(p) ==
    IF p.exts = <<>> THEN p ELSE [p EXCEPT !.exts = SubSeq(@, 1, Len(@) - 1)]

\* p.endswith(suffixes), suffixes a sequence of dotted suffixes such as .tar.gz.
EndsWith(p, suffixes) ==
    /\ Len(p.exts) >= Len(suffixes)
    /\ SubSeq(p.exts, Len(p.exts) - Len(suffixes) + 1, Len(p.exts)) = suffixes

\* os.path.basename(p).
Basename(p) == <<p.stem>> \o p.exts

\* os.path.join(tmp_dir, name) for a relative name.
Join(tmp_dir, name) == [name EXCEPT !.dir = <<tmp_dir>> \o @]

\* Mutant: the member is named by the base name of the file alone.
RelPath_Basename(f, tmp_dir) == [f EXCEPT !.dir = <<>>]

\* os.path.relpath(f, tmp_dir) for a file f below tmp_dir.
RelPath(f, tmp_dir) == [f EXCEPT !.dir = Tail(@)]

Under(f, tmp_dir) == f.dir # <<>> /\ Head(f.dir) = tmp_dir

(***************************************************************************)
(* Files.  disk maps the paths that exist to their content.  The content   *)
(* of a file is [kind, id, ops, members]: ops lists what external tools    *)
(* have written into it, members is the member list of an archive; a       *)
(* member is [name, data] with data a content itself.                      *)
(***************************************************************************)
File(id) == [kind |-> "file", id |-> id, ops |-> <<>>, members |-> <<>>]

\* A directory, on disk or as an entry of an archive.
Dir(id) == [kind |-> "dir", id |-> id, ops |-> <<>>, members |-> <<>>]

Archive(kind, members) == [kind |-> kind, id |-> "archive", ops |-> <<>>, members |-> members]

Member(name, data) == [name |-> name, data |-> data]

\* An archive the writer of which was stopped by an exception.
Truncated(kind, members) ==
    [kind |-> kind, id |-> "truncated", ops |-> <<>>, members |-> members]

\* What the signing tool writes to its -o target for source content src.
ToolOutput(src, fmt) == [src EXCEPT !.ops = Append(@, fmt)]

\* Mutant: the scratch directory is left as it is.
Rm_Keep(d, tmp_dir) == d

\* shutil.rmtree of a scratch directory.
Rm(d, tmp_dir) == [p \in {q \in DOMAIN d : ~Under(q, tmp_dir)} |-> d[p]]

Names(members) == [i \in 1..Len(members) |-> members[i].name]

\* The entry a zip or tar reader finds for a name: the last one written.
LastMember(members, name) ==
    members[CHOOSE i \in 1..Len(members) :
                /\ members[i].name = name
                /\ \A j \in (i+1)..Len(members) : members[j].name # name]

(***************************************************************************)
(* The archive codec (sign.py 450-549).  Each operator returns the new     *)
(* disk, the value returned and whether an exception left the function.   *)
(***************************************************************************)
\* _get_zipfile_files (451-454), _get_tarfile_files (508-514): the member names.
_get_zipfile_files(d, from_) == Names(d[from_].members)

\* What zipfile.ZipFile(from_, mode='r') raises, "" when it opens the archive.
ZipOpenError(d, from_) ==
    IF from_ \notin DOMAIN d THEN "FileNotFoundError"
    ELSE IF d[from_].kind # "zip" THEN "BadZipFile"
    ELSE ""

\* What tarfile.open(from_, mode='r:<compression>') raises, "" when it opens
\* the archive.
TarOpenError(d, from_) ==
    IF from_ \notin DOMAIN d THEN "FileNotFoundError"
    ELSE IF d[from_].kind # "tar" THEN "ReadError"
    ELSE ""

\* The exception that leaves _get_zipfile_files (451-454) and
\* _get_tarfile_files (508-514) when the library raises: neither has a
\* try block, so it is the library's own exception.
ListingError(raised) == raised

\* z.extract of each named member; extractall when files is the whole listing.
RECURSIVE ExtractEach(_, _, _, _)
ExtractEach(d, members, names, tmp_dir) ==
    IF names = <<>> THEN d
    ELSE ExtractEach(DictSet(d, Join(tmp_dir, Head(names)),
                             LastMember(members, Head(names)).data),
                     members, Tail(names), tmp_dir)

\* The names z.extract is reached with: those before the first name the
\* archive does not hold.
RECURSIVE KnownPrefix(_, _)
KnownPrefix(names, known) ==
    IF names = <<>> \/ Head(names) \notin known THEN <<>>
    ELSE <<Head(names)>> \o KnownPrefix(Tail(names), known)

\* _extract_zipfile (458-479).  files is the list of names, or the whole
\* listing for files=None.  The scratch directory is removed before the
\* archive is opened.
_extract_zipfile(d, from_, files, tmp_dir) ==
    LET cleared == Rm(d, tmp_dir)
        opened  == ZipOpenError(cleared, from_) = ""
        members == IF opened THEN cleared[from_].members ELSE <<>>
        found   == KnownPrefix(files, Range(Names(members)))
    IN  IF opened /\ Len(found) = Len(files)
        THEN [disk  |-> ExtractEach(cleared, members, files, tmp_dir),
              files |-> [i \in 1..Len(files) |-> Join(tmp_dir, files[i])],
              error |-> ""]
        ELSE [disk  |-> ExtractEach(cleared, members, found, tmp_dir),
              files |-> <<>>,
              error |-> "SigningScriptError"]

\* The members z.write / t.add put into the archive for the files, up to
\* the first file that does not exist.
RECURSIVE WriteEach(_, _, _)
WriteEach(d, files, tmp_dir) ==
    IF files = <<>> \/ Head(files) \notin DOMAIN d THEN <<>>
    ELSE <<Member(RelPath(Head(files), tmp_dir), d[Head(files)])>>
            \o WriteEach(d, Tail(files), tmp_dir)

\* _create_zipfile (483-494): mode 'w' starts an empty archive, mode 'a'
\* adds to the members the archive holds.
_create_zipfile(d, to, files, tmp_dir, mode) ==
    LET before  == IF mode = "a" /\ to \in DOMAIN d THEN d[to].members ELSE <<>>
        written == WriteEach(d, files, tmp_dir)
        all_ok  == Len(written) = Len(files)
        after   == IF mode = "a" /\ to \in DOMAIN d
                      THEN [d[to] EXCEPT !.members = before \o written]
                      ELSE Archive("zip", written)
    IN  [disk  |-> DictSet(d, to, after),
         files |-> <<to>>,
         error |-> IF all_ok THEN "" ELSE "SigningScriptError"]

\* compression.lstrip('.'), line 499: the text without its leading dots.
LstripDots(text) ==
    CASE text \in {"gz", ".gz", "..gz"} -> "gz"
      [] text \in {"bz2", ".bz2"} -> "bz2"
      [] text \in {"xz", ".xz"} -> "xz"
      [] text \in {"zip", ".zip"} -> "zip"
      [] text \in {"tar", ".tar"} -> "tar"
      [] text \in {"", "."} -> ""
      [] OTHER -> text

\* Mutant: every compression kind is let through.
_get_tarfile_compression_Any(compression) == LstripDots(compression)

\* _get_tarfile_compression (498-504): the suffix without its dots, if supported.
_get_tarfile_compression(compression) ==
    IF LstripDots(compression) \in {"bz2", "gz"}
    THEN LstripDots(compression)
    ELSE "SigningScriptError"

\* Mutant: the directories extracted are listed too.
IsFile_Any(content) == TRUE

\* os.path.isfile(path), line 530.
IsFile(content) == content.kind # "dir"

\* _extract_tarfile (518-533): everything is extracted; the list returned
\* holds the paths of the entries that are files.
_extract_tarfile(d, from_, compression, tmp_dir) ==
    LET cleared == Rm(d, tmp_dir)
        ok == TarOpenError(cleared, from_) = ""
        members == IF ok THEN cleared[from_].members ELSE <<>>
        names == Names(members)
        extracted == ExtractEach(cleared, members, names, tmp_dir)
        paths == [i \in 1..Len(names) |-> Join(tmp_dir, names[i])]
    IN  IF _get_tarfile_compression(compression) = "SigningScriptError"
        THEN [disk |-> d, files |-> <<>>, error |-> "SigningScriptError"]
        ELSE IF ok
        THEN [disk  |-> extracted,
              files |-> SelectSeq(paths, LAMBDA f : IsFile(extracted[f])),
              error |-> ""]
        ELSE [disk |-> cleared, files |-> <<>>, error |-> "SigningScriptError"]

\* _create_tarfile (537-549): the archive is opened for writing, which
\* empties it, before the first file is added.
_create_tarfile(d, to, files, compression, tmp_dir) ==
    LET written == WriteEach(d, files, tmp_dir)
        all_ok  == Len(written) = Len(files)
    IN  IF _get_tarfile_compression(compression) = "SigningScriptError"
        THEN [disk |-> d, files |-> <<>>, error |-> "SigningScriptError"]
        ELSE [disk  |-> DictSet(d, to, IF all_ok THEN Archive("tar", written)
                                                 ELSE Truncated("tar", written)),
              files |-> <<to>>,
              error |-> IF all_ok THEN "" ELSE "SigningScriptError"]

(***************************************************************************)
(* sign (task.py 111-153): the chain of strategies for one artifact.       *)
(***************************************************************************)
\* FORMAT_TO_SIGNING_FUNCTION (task.py 21-32).
FORMAT_TO_SIGNING_FUNCTION ==
    [gpg              |-> "sign_gpg",
     jar              |-> "sign_jar",
     macapp           |-> "sign_macapp",
     osslsigncode     |-> "sign_signcode",
     sha2signcode     |-> "sign_signcode",
     signcode         |-> "sign_signcode",
     widevine         |-> "sign_widevine",
     widevine_blessed |-> "sign_widevine",
     default          |-> "sign_file"]

\* Mutant: an identifier that is not a key has no strategy.
DispatchGet_NoDefault(fmt) ==
    IF fmt \in DOMAIN FORMAT_TO_SIGNING_FUNCTION
        THEN FORMAT_TO_SIGNING_FUNCTION[fmt] ELSE "KeyError"

\* FORMAT_TO_SIGNING_FUNCTION.get(fmt, FORMAT_TO_SIGNING_FUNCTION['default'])
DispatchGet(fmt) ==
    IF fmt \in DOMAIN FORMAT_TO_SIGNING_FUNCTION
        THEN FORMAT_TO_SIGNING_FUNCTION[fmt]
        ELSE FORMAT_TO_SIGNING_FUNCTION["default"]

\* Python values that are a path text or a list of path texts.
Str(p) == [list |-> FALSE, paths |-> <<p>>]

List(ps) == [list |-> TRUE, paths |-> ps]

NoValue == [list |-> FALSE, paths |-> <<>>]

NoPath == Path(<<>>, "", <<>>)

NoFrame == [fn |-> "", from_ |-> NoPath, fmt |-> "", pc |-> "none", ret |-> NoValue, err |-> ""]

NoLocals == [tmp_dir |-> "", files |-> <<>>, k |-> 1, sig_files |-> <<>>, container |-> ""]

\* What the actions of a strategy leave alone: the variables of sign itself.
chainVars == <<disk_in, sign_path, sign_formats, sign_i, signed_file, sign_pc, sign_error,
               calls, returns>>

\* The strategy fn is running and stands at pc.
Active(fn, pc) == sign_pc = "awaiting" /\ frame.fn = fn /\ frame.pc = pc

\* The strategy returns v / raises e.
Return(v) == [frame EXCEPT !.pc = "return", !.ret = v]

Raise(e) == [frame EXCEPT !.pc = "raise", !.err = e]

\* Lines 126-130: look the strategy of the next format up and call it with
\* the value the previous one returned.
SignCall ==
    /\ sign_pc = "loop"
    /\ sign_i <= Len(sign_formats)
    /\ LET fmt == sign_formats[sign_i]
           fn  == DispatchGet(fmt)
       IN  /\ calls' = Append(calls, [fn |-> fn, arg |-> signed_file, fmt |-> fmt])
           /\ frame' = [fn |-> fn, from_ |-> signed_file.paths[1], fmt |-> fmt,
                        pc |-> "start", ret |-> NoValue, err |-> ""]
    /\ locals' = NoLocals
    /\ tasks' = <<>>
    /\ sign_pc' = "awaiting"
    /\ UNCHANGED <<disk, disk_in, sign_path, sign_formats, sign_i, signed_file, sign_error,
                   tmp_count, returns, cmds, oplog, signOther>>

\* Line 130: the awaited strategy returned; its value becomes signed_file.
SignReturn ==
    /\ sign_pc = "awaiting"
    /\ frame.pc = "return"
    /\ signed_file' = frame.ret
    /\ returns' = Append(returns, frame.ret)
    /\ sign_i' = sign_i + 1
    /\ frame' = NoFrame
    /\ sign_pc' = "loop"
    /\ UNCHANGED <<disk, disk_in, sign_path, sign_formats, sign_error, locals, tasks,
                   tmp_count, calls, cmds, oplog, signOther>>

\* Mutant: the exception of a strategy is swallowed and the loop goes on.
OnStrategyError_Continue == "loop"

\* Line 130: there is no try around the await; the exception of the
\* strategy leaves sign.
OnStrategyError == "raised"

SignRaise ==
    /\ sign_pc = "awaiting"
    /\ frame.pc = "raise"
    /\ sign_pc' = OnStrategyError
    /\ sign_error' = frame.err
    /\ sign_i' = IF OnStrategyError = "loop" THEN sign_i + 1 ELSE sign_i
    /\ frame' = NoFrame
    /\ UNCHANGED <<disk, disk_in, sign_path, sign_formats, signed_file, locals, tasks,
                   tmp_count, calls, returns, cmds, oplog, signOther>>

\* Lines 150-153: wrap a single path into a list and return it.
SignFinish ==
    /\ sign_pc = "loop"
    /\ sign_i > Len(sign_formats)
    /\ signed_file' = IF signed_file.list THEN signed_file ELSE List(signed_file.paths)
    /\ sign_pc' = "done"
    /\ UNCHANGED <<disk, disk_in, sign_path, sign_formats, sign_i, sign_error, frame, locals,
                   tasks, tmp_count, calls, returns, cmds, oplog, signOther>>

(***************************************************************************)
(* External commands.  utils.execute_subprocess runs the command once and  *)
(* raises FailedSubprocess when it exits with a non-zero code.             *)
(***************************************************************************)
\* Mutant: without a target every command writes to one fixed file.
build_signtool_cmd_SharedTarget(from_, fmt, to) ==
    [tool |-> "signtool", fmt |-> fmt,
     to |-> IF to = NoPath THEN Path(<<"work_dir">>, "signed", <<>>) ELSE to,
     from_ |-> from_]

\* build_signtool_cmd (sign.py 86-116): ... -f fmt -o to from_, to = to or from_.
build_signtool_cmd(from_, fmt, to) ==
    [tool |-> "signtool", fmt |-> fmt, to |-> IF to = NoPath THEN from_ ELSE to,
     from_ |-> from_]

\* Any other external command, with the file it reads and the file it writes.
ToolCmd(tool, from_, to) == [tool |-> tool, fmt |-> "", to |-> to, from_ |-> from_]

\* How one run of a command can end.
execute_subprocess(d, cmd) ==
    IF cmd.from_ \in DOMAIN d THEN {"ok", "FailedSubprocess"} ELSE {"FailedSubprocess"}

\* The file a successful signtool run leaves at its -o target.
SigntoolEffect(d, cmd) == DictSet(d, cmd.to, ToolOutput(d[cmd.from_], cmd.fmt))

\* sign_file (sign.py 120-140): return to or from_.
SignFileReturn(from_, to) == IF to = NoPath THEN from_ ELSE to

(***************************************************************************)
(* sign_file as a strategy, sign_gpg, sign_jar, sign_macapp.               *)
(***************************************************************************)
\* sign_file(context, from_, fmt) called by sign for an unmapped format.
SignFile ==
    /\ Active("sign_file", "start")
    /\ LET cmd == build_signtool_cmd(frame.from_, frame.fmt, NoPath)
       IN  \E out \in execute_subprocess(disk, cmd) :
            /\ cmds' = Append(cmds, [cmd |-> cmd, status |-> out])
            /\ disk' = IF out = "ok" THEN SigntoolEffect(disk, cmd) ELSE disk
            /\ frame' = IF out = "ok"
                           THEN Return(Str(SignFileReturn(frame.from_, NoPath)))
                           ELSE Raise(out)
    /\ UNCHANGED <<chainVars, locals, tasks, tmp_count, oplog, signOther>>

\* Mutant: the signature is written over the artifact.
GpgTarget_InPlace(from_) == from_

\* sign_gpg line 158: to = "{}.asc".format(from_)
GpgTarget(from_) == AddSuffix(from_, ".asc")

\* sign_gpg (sign.py 144-160).
SignGpg ==
    /\ Active("sign_gpg", "start")
    /\ LET to  == GpgTarget(frame.from_)
           cmd == build_signtool_cmd(frame.from_, frame.fmt, to)
       IN  \E out \in execute_subprocess(disk, cmd) :
            /\ cmds' = Append(cmds, [cmd |-> cmd, status |-> out])
            /\ disk' = IF out = "ok" THEN SigntoolEffect(disk, cmd) ELSE disk
            /\ frame' = IF out = "ok" THEN Return(List(<<frame.from_, to>>)) ELSE Raise(out)
    /\ UNCHANGED <<chainVars, locals, tasks, tmp_count, oplog, signOther>>

\* sign_jar line 176: await sign_file(context, from_, fmt).
SignJarSign ==
    /\ Active("sign_jar", "start")
    /\ LET cmd == build_signtool_cmd(frame.from_, frame.fmt, NoPath)
       IN  \E out \in execute_subprocess(disk, cmd) :
            /\ cmds' = Append(cmds, [cmd |-> cmd, status |-> out])
            /\ disk' = IF out = "ok" THEN SigntoolEffect(disk, cmd) ELSE disk
            /\ frame' = IF out = "ok" THEN [frame EXCEPT !.pc = "align"] ELSE Raise(out)
    /\ UNCHANGED <<chainVars, locals, tasks, tmp_count, oplog, signOther>>

\* The scratch copy zipalign writes: <temp_dir>/aligned.apk.
AlignedApk == Path(<<"zipalign.tmp">>, "aligned", <<".apk">>)

\* Mutant: the scratch copy is moved over the original however the tool ended.
zip_align_apk_MoveAlways(d, abs_to, out) ==
    DictSet(d, abs_to, ToolOutput(d[abs_to], "zipalign"))

\* zip_align_apk lines 420-421: the tool writes the scratch copy; when it
\* has succeeded shutil.move puts the copy over the original.  The scratch
\* directory is gone when the function is left.
zip_align_apk(d, abs_to, out) ==
    IF out = "ok" THEN DictSet(d, abs_to, ToolOutput(d[abs_to], "zipalign")) ELSE d

\* sign_jar line 177 and zip_align_apk (sign.py 398-423).
SignJarAlign ==
    /\ Active("sign_jar", "align")
    /\ LET cmd == ToolCmd("zipalign", frame.from_, AlignedApk)
       IN  \E out \in execute_subprocess(disk, cmd) :
            /\ cmds' = Append(cmds, [cmd |-> cmd, status |-> out])
            /\ disk' = zip_align_apk(disk, frame.from_, out)
            /\ frame' = IF out = "ok" THEN Return(Str(frame.from_)) ELSE Raise(out)
    /\ UNCHANGED <<chainVars, locals, tasks, tmp_count, oplog, signOther>>

\* Mutant: the path keeps its suffix.
TarGzOf_SamePath(from_) == from_

\* sign_macapp line 199: "{}.tar.gz".format(file_base)
TarGzOf(from_) == AddSuffix(AddSuffix(SplitBase(from_), ".tar"), ".gz")

\* _convert_dmg_to_tar_gz (sign.py 427-447): the three commands, in order.
DmgCommands(from_) ==
    <<ToolCmd("dmg", from_, Path(<<"dmg.tmp">>, "tmp", <<".hfs">>)),
      ToolCmd("hfsplus", from_, Path(<<"dmg.tmp">>, "app", <<>>)),
      ToolCmd("tar", from_, TarGzOf(from_))>>

\* The tarball the tar command leaves at its target.
TarballOf(src) == [kind |-> "tar", id |-> src.id, ops |-> src.ops, members |-> <<>>]

\* sign_macapp lines 196-198: for a .dmg, run the next conversion command.
MacappConvert ==
    /\ Active("sign_macapp", "start")
    /\ SplitExt(frame.from_) = ".dmg"
    /\ locals.k <= Len(DmgCommands(frame.from_))
    /\ LET cmd == DmgCommands(frame.from_)[locals.k]
       IN  \E out \in execute_subprocess(disk, cmd) :
            /\ cmds' = Append(cmds, [cmd |-> cmd, status |-> out])
            /\ disk' = IF out = "ok" /\ cmd.tool = "tar"
                          THEN DictSet(disk, cmd.to, TarballOf(disk[frame.from_]))
                          ELSE disk
            /\ frame' = IF out = "ok" THEN frame ELSE Raise(out)
            /\ locals' = [locals EXCEPT !.k = @ + 1]
    /\ UNCHANGED <<chainVars, tasks, tmp_count, oplog, signOther>>

\* sign_macapp lines 199-201: sign the tarball (or the input itself).
MacappSign ==
    /\ Active("sign_macapp", "start")
    /\ SplitExt(frame.from_) = ".dmg" => locals.k > Len(DmgCommands(frame.from_))
    /\ LET from_ == IF SplitExt(frame.from_) = ".dmg" THEN TarGzOf(frame.from_)
                                                      ELSE frame.from_
           cmd   == build_signtool_cmd(from_, frame.fmt, NoPath)
       IN  \E out \in execute_subprocess(disk, cmd) :
            /\ cmds' = Append(cmds, [cmd |-> cmd, status |-> out])
            /\ disk' = IF out = "ok" THEN SigntoolEffect(disk, cmd) ELSE disk
            /\ frame' = IF out = "ok" THEN Return(Str(from_)) ELSE Raise(out)
    /\ UNCHANGED <<chainVars, locals, tasks, tmp_count, oplog, signOther>>

(***************************************************************************)
(* Scratch directories and the log of archive operations.                  *)
(***************************************************************************)
\* tempfile.mkdtemp(prefix=..., dir=work_dir): a directory that did not
\* exist before; the n-th one made.
Mkdtemp(prefix, n) ==
    CASE prefix = "zip"   -> <<"zip.1", "zip.2", "zip.3", "zip.4">>[n]
      [] prefix = "wvzip" -> <<"wvzip.1", "wvzip.2", "wvzip.3", "wvzip.4">>[n]
      [] prefix = "wvtar" -> <<"wvtar.1", "wvtar.2", "wvtar.3", "wvtar.4">>[n]

Op(op, arg) == [op |-> op, arg |-> arg]

(***************************************************************************)
(* sign_signcode (sign.py 205-238) and _should_sign_windows (362-374).     *)
(***************************************************************************)
\* The names of _dont_sign that hold no wildcard.
DONT_SIGN_NAMES ==
    {<<"D3DCompiler_42", ".dll">>, <<"d3dx9_42", ".dll">>,
     <<"D3DCompiler_43", ".dll">>, <<"d3dx9_43", ".dll">>}

\* The base names (up to the first dot) of the inputs that begin with msvc.
MSVC_STEMS == {"msvc", "msvc140", "msvcblah"}

\* Mutant: the wildcard pattern matches nothing.
MatchesMsvcGlob_Never(b) == FALSE

\* fnmatch.fnmatch(b, 'msvc*.dll')
MatchesMsvcGlob(b) == b[1] \in MSVC_STEMS /\ Len(b) >= 2 /\ b[Len(b)] = ".dll"

\* Mutant: every file is taken for signing.
_should_sign_windows_Always(filename) == TRUE

\* Lines 370-374.
_should_sign_windows(filename) ==
    /\ SplitExt(filename) \in {".dll", ".exe"}
    /\ Basename(filename) \notin DONT_SIGN_NAMES
    /\ ~MatchesMsvcGlob(Basename(filename))

\* Lines 220-230: extract a zip into a fresh scratch directory, or take the
\* input itself as the only file.
SigncodeBegin ==
    /\ Active("sign_signcode", "start")
    /\ IF SplitExt(frame.from_) = ".zip"
          THEN LET tmp_dir == Mkdtemp("zip", tmp_count + 1)
                   r == _extract_zipfile(disk, frame.from_,
                                         _get_zipfile_files(disk, frame.from_), tmp_dir)
               IN  /\ tmp_count' = tmp_count + 1
                   /\ oplog' = oplog \o <<Op("mkdtemp", frame.from_), Op("extract", frame.from_)>>
                   /\ disk' = r.disk
                   /\ locals' = [NoLocals EXCEPT !.tmp_dir = tmp_dir, !.files = r.files]
                   /\ frame' = IF r.error = "" THEN [frame EXCEPT !.pc = "loop"]
                                               ELSE Raise(r.error)
          ELSE /\ locals' = [NoLocals EXCEPT !.files = <<frame.from_>>]
               /\ frame' = [frame EXCEPT !.pc = "loop"]
               /\ UNCHANGED <<tmp_count, oplog, disk>>
    /\ UNCHANGED <<chainVars, tasks, cmds, signOther>>

\* Lines 232-234, a file the check accepts: sign it in place.
SigncodeSign ==
    /\ Active("sign_signcode", "loop")
    /\ locals.k <= Len(locals.files)
    /\ _should_sign_windows(locals.files[locals.k])
    /\ LET cmd == build_signtool_cmd(locals.files[locals.k], frame.fmt, NoPath)
       IN  \E out \in execute_subprocess(disk, cmd) :
            /\ cmds' = Append(cmds, [cmd |-> cmd, status |-> out])
            /\ disk' = IF out = "ok" THEN SigntoolEffect(disk, cmd) ELSE disk
            /\ frame' = IF out = "ok" THEN frame ELSE Raise(out)
            /\ locals' = [locals EXCEPT !.k = @ + 1]
    /\ UNCHANGED <<chainVars, tasks, tmp_count, oplog, signOther>>

\* Lines 232-233, a file the check rejects: nothing is done with it.
SigncodeSkip ==
    /\ Active("sign_signcode", "loop")
    /\ locals.k <= Len(locals.files)
    /\ ~_should_sign_windows(locals.files[locals.k])
    /\ locals' = [locals EXCEPT !.k = @ + 1]
    /\ UNCHANGED <<chainVars, disk, frame, tasks, tmp_count, cmds, oplog, signOther>>

\* Lines 235-238: rebuild the zip from the extracted files; return orig_path.
SigncodeFinish ==
    /\ Active("sign_signcode", "loop")
    /\ locals.k > Len(locals.files)
    /\ IF SplitExt(frame.from_) = ".zip"
          THEN LET r == _create_zipfile(disk, frame.from_, locals.files, locals.tmp_dir, "w")
               IN  /\ disk' = r.disk
                   /\ oplog' = Append(oplog, Op("create", frame.from_))
                   /\ frame' = IF r.error = "" THEN Return(Str(frame.from_))
                                               ELSE Raise(r.error)
          ELSE /\ frame' = Return(Str(frame.from_))
               /\ UNCHANGED <<disk, oplog>>
    /\ UNCHANGED <<chainVars, locals, tasks, tmp_count, cmds, signOther>>

(***************************************************************************)
(* _should_sign_widevine (sign.py 378-394).                                *)
(***************************************************************************)
_WIDEVINE_BLESSED_FILENAMES ==
    {<<"plugin-container">>, <<"plugin-container", ".exe">>}

_WIDEVINE_NONBLESSED_FILENAMES ==
    {<<"firefox">>, <<"firefox-bin">>, <<"firefox", ".exe">>,
     <<"libxul", ".so">>, <<"XUL">>, <<"xul", ".dll">>,
     <<"clearkey", ".dll">>, <<"libclearkey", ".dylib">>, <<"libclearkey", ".so">>}

\* Mutant: the whole path, not its base name, is looked up in the name sets.
WidevineFormat_WholePath(filename) ==
    IF filename.dir # <<>> THEN ""
    ELSE IF Basename(filename) \in _WIDEVINE_BLESSED_FILENAMES THEN "widevine_blessed"
    ELSE IF Basename(filename) \in _WIDEVINE_NONBLESSED_FILENAMES THEN "widevine"
    ELSE ""

\* Lines 382-387: the sub-format of a listed path, "" for None.
WidevineFormat(filename) ==
    LET base_filename == Basename(filename)
    IN  IF base_filename \in _WIDEVINE_BLESSED_FILENAMES THEN "widevine_blessed"
        ELSE IF base_filename \in _WIDEVINE_NONBLESSED_FILENAMES THEN "widevine"
        ELSE ""

\* Mutant: a member is classified although its .sig is in the listing.
AlreadySigned_Never(filename, file_list) == FALSE

\* Line 390: "{}.sig".format(filename) in file_list
AlreadySigned(filename, file_list) == AddSuffix(filename, ".sig") \in Range(file_list)

\* The dict files, as the list of its items in insertion order.
RECURSIVE ClassifyLoop(_, _, _)
ClassifyLoop(file_list, k, files) ==
    IF k > Len(file_list) THEN files
    ELSE LET filename == file_list[k]
             fmt == WidevineFormat(filename)
             is_key == \E i \in 1..Len(files) : files[i].path = filename
         IN  IF fmt # "" /\ ~AlreadySigned(filename, file_list) /\ ~is_key
                THEN ClassifyLoop(file_list, k + 1,
                                  Append(files, [path |-> filename, fmt |-> fmt]))
                ELSE ClassifyLoop(file_list, k + 1, files)

_should_sign_widevine(file_list) == ClassifyLoop(file_list, 1, <<>>)

(***************************************************************************)
(* sign_widevine (sign.py 242-267), sign_widevine_zip (270-313),           *)
(* sign_widevine_tar (316-358).                                            *)
(***************************************************************************)
\* Mutant: a path with another suffix is handled as a zip.
ext_to_fn_ZipByDefault(orig_path) ==
    CASE EndsWith(orig_path, <<".tar", ".bz2">>) -> "sign_widevine_tar"
      [] EndsWith(orig_path, <<".tar", ".gz">>) -> "sign_widevine_tar"
      [] OTHER -> "sign_widevine_zip"

\* Lines 257-267: the helper for the suffix of orig_path, if there is one.
ext_to_fn(orig_path) ==
    CASE EndsWith(orig_path, <<".zip">>) -> "sign_widevine_zip"
      [] EndsWith(orig_path, <<".tar", ".bz2">>) -> "sign_widevine_tar"
      [] EndsWith(orig_path, <<".tar", ".gz">>) -> "sign_widevine_tar"
      [] OTHER -> "SigningScriptError"

\* Lines 265-267: no helper for the suffix.
WvUnknown ==
    /\ Active("sign_widevine", "start")
    /\ ext_to_fn(frame.from_) = "SigningScriptError"
    /\ frame' = Raise("SigningScriptError")
    /\ UNCHANGED <<chainVars, disk, locals, tasks, tmp_count, cmds, oplog, signOther>>

\* Mutant: the batch is launched and repacked even when nothing qualifies.
NothingToSign_Never(files_to_sign) == FALSE

\* Lines 296 and 347: `if files_to_sign:` is false.
NothingToSign(files_to_sign) == files_to_sign = <<>>

\* Mutant: every member is signed with the format requested for the archive.
NewTasks_RequestedFormat(froms, files_to_sign) ==
    [i \in 1..Len(files_to_sign) |->
        [from_ |-> froms[i], fmt |-> frame.fmt, state |-> "created", cmd |-> 0, seq |-> 0]]

\* The futures of lines 306 and 351: one sign_file(context, from_, fmt) per
\* item of files_to_sign, not started yet.
NewTasks(froms, files_to_sign) ==
    [i \in 1..Len(files_to_sign) |->
        [from_ |-> froms[i], fmt |-> files_to_sign[i].fmt, state |-> "created", cmd |-> 0,
         seq |-> 0]]

SigFiles(froms) == [i \in 1..Len(froms) |-> AddSuffix(froms[i], ".sig")]

\* sign_widevine_zip lines 290-307: up to the await of line 308.
WvZipBegin ==
    /\ Active("sign_widevine", "start")
    /\ ext_to_fn(frame.from_) = "sign_widevine_zip"
    /\ LET tmp_dir       == Mkdtemp("wvzip", tmp_count + 1)
           all_files     == _get_zipfile_files(disk, frame.from_)
           files_to_sign == _should_sign_widevine(all_files)
           files         == [i \in 1..Len(files_to_sign) |-> files_to_sign[i].path]
           froms         == [i \in 1..Len(files) |-> Join(tmp_dir, files[i])]
           r             == _extract_zipfile(disk, frame.from_, files, tmp_dir)
       IN  /\ tmp_count' = tmp_count + 1
           /\ IF NothingToSign(files_to_sign)
                 THEN /\ oplog' = oplog \o <<Op("mkdtemp", frame.from_), Op("list", frame.from_)>>
                      /\ frame' = Return(Str(frame.from_))
                      /\ locals' = [NoLocals EXCEPT !.tmp_dir = tmp_dir, !.container = "zip"]
                      /\ UNCHANGED <<disk, tasks>>
                 ELSE /\ oplog' = oplog \o <<Op("mkdtemp", frame.from_), Op("list", frame.from_),
                                             Op("extract", frame.from_)>>
                      /\ disk' = r.disk
                      /\ frame' = IF r.error = "" THEN [frame EXCEPT !.pc = "gather"]
                                                  ELSE Raise(r.error)
                      /\ tasks' = IF r.error = "" THEN NewTasks(froms, files_to_sign) ELSE <<>>
                      /\ locals' = [NoLocals EXCEPT !.tmp_dir = tmp_dir, !.container = "zip",
                                                    !.sig_files = SigFiles(froms)]
    /\ UNCHANGED <<chainVars, cmds, signOther>>

\* sign_widevine_tar lines 336-352: up to the await of line 353.
WvTarBegin ==
    /\ Active("sign_widevine", "start")
    /\ ext_to_fn(frame.from_) = "sign_widevine_tar"
    /\ LET compression   == SplitExt(frame.from_)
           tmp_dir       == Mkdtemp("wvtar", tmp_count + 1)
           r             == _extract_tarfile(disk, frame.from_, compression, tmp_dir)
           all_files     == r.files
           files_to_sign == _should_sign_widevine(all_files)
           froms         == [i \in 1..Len(files_to_sign) |-> files_to_sign[i].path]
       IN  /\ tmp_count' = tmp_count + 1
           /\ oplog' = oplog \o <<Op("mkdtemp", frame.from_), Op("extract", frame.from_)>>
           /\ disk' = r.disk
           /\ IF r.error # ""
                 THEN /\ frame' = Raise(r.error)
                      /\ locals' = [NoLocals EXCEPT !.tmp_dir = tmp_dir, !.container = "tar"]
                      /\ UNCHANGED tasks
                 ELSE IF NothingToSign(files_to_sign)
                 THEN /\ frame' = Return(Str(frame.from_))
                      /\ locals' = [NoLocals EXCEPT !.tmp_dir = tmp_dir, !.container = "tar",
                                                    !.files = all_files]
                      /\ UNCHANGED tasks
                 ELSE /\ frame' = [frame EXCEPT !.pc = "gather"]
                      /\ tasks' = NewTasks(froms, files_to_sign)
                      /\ locals' = [NoLocals EXCEPT !.tmp_dir = tmp_dir, !.container = "tar",
                                                    !.files = all_files \o SigFiles(froms)]
    /\ UNCHANGED <<chainVars, cmds, signOther>>

\* A member signing starts: sign_file builds its command and launches it
\* (sign.py 137-139).
WvTaskStart(k) ==
    /\ Active("sign_widevine", "gather")
    /\ tasks[k].state = "created"
    /\ LET cmd == build_signtool_cmd(tasks[k].from_, tasks[k].fmt, NoPath)
       IN  /\ cmds' = Append(cmds, [cmd |-> cmd, status |-> "running"])
           /\ tasks' = [tasks EXCEPT ![k].state = "running", ![k].cmd = Len(cmds) + 1]
    /\ UNCHANGED <<chainVars, disk, frame, locals, tmp_count, oplog, signOther>>

\* A member signing ends: its command has exited.  seq records the order in
\* which the member signings end.
WvTaskFinish(k) ==
    /\ Active("sign_widevine", "gather")
    /\ tasks[k].state = "running"
    /\ \E out \in execute_subprocess(disk, cmds[tasks[k].cmd].cmd) :
        /\ cmds' = [cmds EXCEPT ![tasks[k].cmd].status = out]
        /\ disk' = IF out = "ok" THEN SigntoolEffect(disk, cmds[tasks[k].cmd].cmd) ELSE disk
        /\ tasks' = [tasks EXCEPT ![k].state = out,
                                  ![k].seq = Cardinality({j \in 1..Len(tasks) : tasks[j].seq > 0}) + 1]
    /\ UNCHANGED <<chainVars, frame, locals, tmp_count, oplog, signOther>>

Finished(task) == task.state \in {"ok", "FailedSubprocess"}

\* Mutant: the wait returns as soon as one member signing has ended.
FuturesDone_FirstCompleted(ts) == \E k \in 1..Len(ts) : Finished(ts[k])

\* raise_future_exceptions(tasks), lines 308 and 353: asyncio.wait(tasks)
\* returns when every future is done.
FuturesDone(ts) == \A k \in 1..Len(ts) : Finished(ts[k])

\* Mutant: no exception of a member signing is raised.
FirstException_None(ts) == 0

\* Mutant: the exception reported is that of the last task, failed or not.
FirstException_Last(ts) == Len(ts)

\* raise_future_exceptions then raises the exception of the first future,
\* in the order of tasks, that holds one; 0 when there is none.
FirstException(ts) ==
    IF \E k \in 1..Len(ts) : ts[k].state = "FailedSubprocess"
        THEN CHOOSE k \in 1..Len(ts) :
                /\ ts[k].state = "FailedSubprocess"
                /\ \A j \in 1..(k-1) : ts[j].state # "FailedSubprocess"
        ELSE 0

\* Lines 308 and 353: the await of raise_future_exceptions ends.
WvJoin ==
    /\ Active("sign_widevine", "gather")
    /\ FuturesDone(tasks)
    /\ LET x == FirstException(tasks)
       IN  /\ frame' = IF x = 0 THEN [frame EXCEPT !.pc = "repack"]
                                ELSE Raise("FailedSubprocess")
           /\ locals' = [locals EXCEPT !.k = x]
    /\ UNCHANGED <<chainVars, disk, tasks, tmp_count, cmds, oplog, signOther>>

\* sign_widevine_zip lines 310-313: append sig_files to the archive.
WvZipRepack ==
    /\ Active("sign_widevine", "repack")
    /\ locals.container = "zip"
    /\ LET r == _create_zipfile(disk, frame.from_, locals.sig_files, locals.tmp_dir, "a")
       IN  /\ disk' = r.disk
           /\ oplog' = Append(oplog, Op("create", frame.from_))
           /\ frame' = IF r.error = "" THEN Return(Str(frame.from_)) ELSE Raise(r.error)
    /\ UNCHANGED <<chainVars, locals, tasks, tmp_count, cmds, signOther>>

\* sign_widevine_tar lines 355-358: write the archive anew from all_files.
WvTarRepack ==
    /\ Active("sign_widevine", "repack")
    /\ locals.container = "tar"
    /\ LET r == _create_tarfile(disk, frame.from_, locals.files, SplitExt(frame.from_),
                                locals.tmp_dir)
       IN  /\ disk' = r.disk
           /\ oplog' = Append(oplog, Op("create", frame.from_))
           /\ frame' = IF r.error = "" THEN Return(Str(frame.from_)) ELSE Raise(r.error)
    /\ UNCHANGED <<chainVars, locals, tasks, tmp_count, cmds, signOther>>

(***************************************************************************)
(* Inputs of sign: the artifact on disk and its formats.                   *)
(***************************************************************************)
\* Members of the archives used as inputs, by relative name.
Firefox == Member(Path(<<>>, "firefox", <<>>), File("firefox"))

PluginContainer == Member(Path(<<"y">>, "plugin-container", <<>>), File("plugin-container"))

Unrelated == Member(Path(<<>>, "unrelated", <<".txt">>), File("unrelated"))

FirefoxSig == Member(Path(<<>>, "firefox", <<".sig">>), File("firefox.sig"))

DirY == Member(Path(<<>>, "y", <<>>), Dir("y"))

XulDll == Member(Path(<<"x">>, "xul", <<".dll">>), File("xul"))

SetupExe == Member(Path(<<"x">>, "setup", <<".exe">>), File("setup"))

MsvcDll == Member(Path(<<>>, "msvc140", <<".dll">>), File("msvc140"))

\* The elements of seq at the indexes in S, in the order of seq.
Pick(seq, S) ==
    LET F[i \in 0..Len(seq)] ==
            IF i = 0 THEN <<>>
            ELSE IF i \in S THEN Append(F[i-1], seq[i]) ELSE F[i-1]
    IN  F[Len(seq)]

\* The artifact cot/target<exts>.
Target(exts) == Path(<<"cot">>, "target", exts)

\* What a file with the suffixes of p holds, given its members.
ContentFor(p, members) ==
    IF EndsWith(p, <<".zip">>) \/ EndsWith(p, <<".apk">>) THEN Archive("zip", members)
    ELSE IF EndsWith(p, <<".tar", ".gz">>) \/ EndsWith(p, <<".tar", ".bz2">>)
        THEN Archive("tar", members)
    ELSE [File("target") EXCEPT !.members = members]

\* sign has been called with path and signing_formats; line 124 has run.
SignEntered(path, signing_formats, members) ==
    /\ sign_path = path
    /\ sign_formats = signing_formats
    /\ disk = (path :> ContentFor(path, members))
    /\ disk_in = disk
    /\ sign_i = 1
    /\ signed_file = Str(path)
    /\ sign_pc = "loop"
    /\ sign_error = ""
    /\ frame = NoFrame
    /\ locals = NoLocals
    /\ tasks = <<>>
    /\ tmp_count = 0
    /\ calls = <<>> /\ returns = <<>> /\ cmds = <<>> /\ oplog = <<>>

(***************************************************************************)
(* Specification SpecWidevine: sign with one Widevine format on archives   *)
(* of every supported container and of an unsupported one.                 *)
(***************************************************************************)
MaxMembers == 3

WidevineUniverse == <<Firefox, DirY, PluginContainer, Unrelated, FirefoxSig, XulDll>>

WidevineArchives ==
    {Pick(WidevineUniverse, S) :
        S \in {T \in SUBSET (1..Len(WidevineUniverse)) : Cardinality(T) <= MaxMembers}}

WidevinePaths ==
    {Target(<<".zip">>), Target(<<".tar", ".gz">>), Target(<<".tar", ".bz2">>),
     Target(<<".dmg">>)}

InitWidevine ==
    /\ SfIdle /\ BflIdle /\ TokIdle /\ CallIdle
    /\ \E path \in WidevinePaths, fmt \in {"widevine", "widevine_blessed"},
          members \in WidevineArchives :
            SignEntered(path, <<fmt>>, members)

NextWidevine ==
    \/ SignCall
    \/ SignReturn
    \/ SignRaise
    \/ SignFinish
    \/ WvUnknown
    \/ WvZipBegin
    \/ WvTarBegin
    \/ \E k \in 1..Len(tasks) : WvTaskStart(k)
    \/ \E k \in 1..Len(tasks) : WvTaskFinish(k)
    \/ WvJoin
    \/ WvZipRepack
    \/ WvTarRepack

SpecWidevine == InitWidevine /\ [][NextWidevine]_vars

(***************************************************************************)
(* Specification SpecSign: sign with every normalised chain of distinct    *)
(* formats on artifacts of several kinds.                                  *)
(***************************************************************************)
MaxChain == 3

ChainMembers == <<Firefox, SetupExe, MsvcDll>>

ChainPaths ==
    {Target(<<".apk">>), Target(<<".dmg">>), Target(<<".zip">>),
     Target(<<".tar", ".gz">>), Target(<<".exe">>)}

\* The lists build_filelist_dict hands on: repeat-free and normalised.
ChainFormats == {_sort_formats(f) : f \in DistinctSeqsUpTo(FormatIds, MaxChain)}

InitSign ==
    /\ SfIdle /\ BflIdle /\ TokIdle /\ CallIdle
    /\ \E path \in ChainPaths, signing_formats \in ChainFormats :
            SignEntered(path, signing_formats, ChainMembers)

NextSign ==
    \/ SignCall
    \/ SignReturn
    \/ SignRaise
    \/ SignFinish
    \/ SignFile
    \/ SignGpg
    \/ SignJarSign
    \/ SignJarAlign
    \/ MacappConvert
    \/ MacappSign
    \/ SigncodeBegin
    \/ SigncodeSign
    \/ SigncodeSkip
    \/ SigncodeFinish
    \/ WvUnknown
    \/ WvZipBegin
    \/ WvTarBegin
    \/ \E k \in 1..Len(tasks) : WvTaskStart(k)
    \/ \E k \in 1..Len(tasks) : WvTaskFinish(k)
    \/ WvJoin
    \/ WvZipRepack
    \/ WvTarRepack

SpecSign == InitSign /\ [][NextSign]_vars

(***************************************************************************)
(* Helper functions of sign.py called on their own.  A call is entered     *)
(* with its arguments and ends with a value or an exception.               *)
(***************************************************************************)
Value(v) == [value |-> v, error |-> ""]

Error(e) == [value |-> <<>>, error |-> e]

\* The call of fn with args has been made.
CallEntered(fn, args) ==
    /\ SfIdle /\ BflIdle /\ TokIdle /\ SignIdle
    /\ call_fn = fn
    /\ call_args = args
    /\ call_result = <<>>
    /\ call_pc = "call"

\* The call ends with result r.
CallEnds(fn, r) ==
    /\ call_pc = "call"
    /\ call_fn = fn
    /\ call_result' = r
    /\ call_pc' = "done"
    /\ UNCHANGED <<call_fn, call_args, callOther>>

(***************************************************************************)
(* task_cert_type (sign.py 46-64).  A scope is the sequence of the parts   *)
(* its text has between colons: project:releng:signing:cert:dep-signing is *)
(* <<"project", "releng", "signing", "cert", "dep-signing">>.              *)
(***************************************************************************)
MaxScopes == 3

\* s.startswith("project:releng:signing:cert:"): the four parts and the
\* colon after them.
IsCertScope(s) ==
    Len(s) >= 5 /\ SubSeq(s, 1, 4) = <<"project", "releng", "signing", "cert">>

ScopeChoices ==
    {<<"project", "releng", "signing", "cert", "dep-signing">>,
     <<"project", "releng", "signing", "cert", "release-signing">>,
     <<"project", "releng", "signing", "cert">>,
     <<"project", "releng", "signing", "format", "gpg">>,
     <<"project", "releng", "signing", "type", "mar">>}

\* Mutant: the first certificate scope is returned however many there are.
task_cert_type_First(task) ==
    LET certs == SelectSeq(task.scopes, IsCertScope)
    IN  IF Len(certs) = 0 THEN Error("TaskVerificationError") ELSE Value(certs[1])

task_cert_type(task) ==
    LET certs == SelectSeq(task.scopes, IsCertScope)
    IN  IF Len(certs) # 1 THEN Error("TaskVerificationError") ELSE Value(certs[1])

InitCertType ==
    \E scopes \in SeqsUpTo(ScopeChoices, MaxScopes) :
        CallEntered("task_cert_type", [scopes |-> scopes])

TaskCertType == CallEnds("task_cert_type", task_cert_type(call_args))

NextCertType == TaskCertType

SpecCertType == InitCertType /\ [][NextCertType]_vars

(***************************************************************************)
(* get_suitable_signing_servers (sign.py 68-82) called on its own.         *)
(***************************************************************************)
MaxRequested == 2

\* The signing_formats lists asked for: empty, repeating, unsupported.
RequestedFormats == SeqsUpTo({"gpg", "jar", "mar"}, MaxRequested)

InitServers ==
    \E servers \in RosterChoices, tier \in {DEP, RELEASE}, fmts \in RequestedFormats :
        CallEntered("get_suitable_signing_servers",
                    [signing_servers |-> servers, cert_type |-> tier, signing_formats |-> fmts])

GetSuitableSigningServers ==
    CallEnds("get_suitable_signing_servers",
             Value(get_suitable_signing_servers(call_args.signing_servers, call_args.cert_type,
                                                call_args.signing_formats)))

NextServers == GetSuitableSigningServers

SpecServers == InitServers /\ [][NextServers]_vars

(***************************************************************************)
(* _should_sign_widevine (sign.py 378-394) called on its own.              *)
(***************************************************************************)
MaxListing == 3

\* The paths a listing is drawn from: signable names at the top and in a
\* directory, .sig siblings, other names, a directory named as a signable.
ListingPaths ==
    {Firefox.name, Path(<<"y">>, "firefox", <<>>), PluginContainer.name,
     FirefoxSig.name, AddSuffix(PluginContainer.name, ".sig"),
     Unrelated.name, Path(<<"firefox">>, "unrelated", <<".txt">>), XulDll.name}

InitClassify ==
    \E file_list \in SeqsUpTo(ListingPaths, MaxListing) :
        CallEntered("_should_sign_widevine", [file_list |-> file_list])

ShouldSignWidevine ==
    CallEnds("_should_sign_widevine", Value(_should_sign_widevine(call_args.file_list)))

NextClassify == ShouldSignWidevine

SpecClassify == InitClassify /\ [][NextClassify]_vars

(***************************************************************************)
(* Specification SpecSigncode: sign with one authenticode format on zips   *)
(* and on single files.                                                    *)
(***************************************************************************)
FooDll == Member(Path(<<"x">>, "foo", <<".dll">>), File("foo"))

D3DCompilerDll == Member(Path(<<>>, "D3DCompiler_42", <<".dll">>), File("D3DCompiler_42"))

SigncodeUniverse == <<SetupExe, MsvcDll, Unrelated, FooDll, D3DCompilerDll>>

SigncodeArchives ==
    {Pick(SigncodeUniverse, S) :
        S \in {T \in SUBSET (1..Len(SigncodeUniverse)) : Cardinality(T) <= MaxMembers}}

\* Inputs that are no zip: accepted and rejected by _should_sign_windows.
SigncodeFiles ==
    {Target(<<".exe">>), Target(<<".txt">>), Path(<<"cot">>, "msvc140", <<".dll">>)}

InitSigncode ==
    /\ SfIdle /\ BflIdle /\ TokIdle /\ CallIdle
    /\ \E fmt \in {"sha2signcode", "signcode", "osslsigncode"} :
        \/ \E members \in SigncodeArchives : SignEntered(Target(<<".zip">>), <<fmt>>, members)
        \/ \E path \in SigncodeFiles : SignEntered(path, <<fmt>>, <<>>)

NextSigncode ==
    \/ SignCall
    \/ SignReturn
    \/ SignRaise
    \/ SignFinish
    \/ SigncodeBegin
    \/ SigncodeSign
    \/ SigncodeSkip
    \/ SigncodeFinish

SpecSigncode == InitSigncode /\ [][NextSigncode]_vars

(***************************************************************************)
(* _should_sign_windows (sign.py 362-374) called on its own.               *)
(***************************************************************************)
WindowsDirs == {<<>>, <<"x">>, <<"msvc">>}

WindowsStems ==
    {"foo", "setup", "readme", "firefox", "D3DCompiler_42", "d3dx9_42", "D3DCompiler_43",
     "d3dx9_43", "d3dcompiler_42", "msvc", "msvc140", "msvcblah"}

WindowsExts ==
    {<<>>, <<".dll">>, <<".exe">>, <<".txt">>, <<".DLL">>, <<".foo", ".dll">>,
     <<".dll", ".sig">>}

InitWindows ==
    \E dir \in WindowsDirs, stem \in WindowsStems, exts \in WindowsExts :
        CallEntered("_should_sign_windows", [filename |-> Path(dir, stem, exts)])

ShouldSignWindows ==
    CallEnds("_should_sign_windows", Value(_should_sign_windows(call_args.filename)))

NextWindows == ShouldSignWindows

SpecWindows == InitWindows /\ [][NextWindows]_vars

(***************************************************************************)
(* The archive codec called directly (sign.py 450-549, as test_sign.py     *)
(* 69-85 and 368-444 call it): a sequence of listing, extraction and       *)
(* creation calls on a disk that holds two source files below the          *)
(* directory used for relativization, a scratch directory with or without  *)
(* an older file, and a zip and a tar path that are absent, hold an        *)
(* archive or hold a file that is no archive.                              *)
(***************************************************************************)
MaxCodecCalls == 2

SrcDir == "src"

ScratchDir == "out"

SrcA == Path(<<SrcDir>>, "a", <<>>)

SrcB == Path(<<SrcDir, "sub">>, "b", <<".txt">>)

SrcMissing == Path(<<SrcDir>>, "missing", <<>>)

StalePath == Path(<<ScratchDir>>, "old", <<>>)

ZipPath == Path(<<>>, "t", <<".zip">>)

TarPath == Path(<<>>, "t", <<".tar", ".gz">>)

NoSuchMember == Path(<<>>, "nothere", <<>>)

\* The texts handed in as the compression of a tar archive.
CompressionChoices == {"gz", ".gz", "..gz", "bz2", ".bz2", "xz", ".xz", ""}

\* What the zip and the tar path hold at first.
OldMembers == <<Member(RelPath(SrcA, SrcDir), File("old a")), Member(Path(<<>>, "z", <<>>), File("z"))>>

CodecDisk(stale, archives) ==
    LET base == (SrcA :> File("a")) @@ (SrcB :> File("b"))
        withStale == IF stale THEN DictSet(base, StalePath, File("old")) ELSE base
    IN  CASE archives = "absent" -> withStale
          [] archives = "archive" ->
                DictSet(DictSet(withStale, ZipPath, Archive("zip", OldMembers)),
                        TarPath, Archive("tar", OldMembers))
          [] OTHER ->
                DictSet(DictSet(withStale, ZipPath, File("not a zip")),
                        TarPath, File("not a tar"))

\* The file lists handed to the creation functions.
CreateLists == {<<SrcA, SrcB>>, <<SrcB>>, <<SrcA, SrcMissing>>}

\* The name lists handed to _extract_zipfile.
ExtractLists == {<<RelPath(SrcA, SrcDir)>>, <<RelPath(SrcB, SrcDir), RelPath(SrcA, SrcDir)>>,
                 <<NoSuchMember>>}

CodecCall(fn, path, files, all, mode, compression) ==
    [fn |-> fn, path |-> path, files |-> files, all |-> all, mode |-> mode,
     compression |-> compression]

InitCodec ==
    /\ SfIdle /\ BflIdle /\ TokIdle /\ CallIdle
    /\ \E stale \in BOOLEAN, archives \in {"absent", "archive", "other"} :
            disk = CodecDisk(stale, archives)
    /\ disk_in = disk
    /\ \E c \in CompressionChoices : sign_formats = <<c>>
    /\ sign_pc = "codec"
    /\ sign_path = <<>> /\ sign_i = 0 /\ signed_file = <<>> /\ sign_error = ""
    /\ frame = <<>> /\ locals = <<>> /\ tasks = <<>> /\ tmp_count = 0
    /\ calls = <<>> /\ returns = <<>> /\ cmds = <<>> /\ oplog = <<>>

\* One call of the codec: the disk becomes what the call leaves, the call and
\* its outcome are recorded.
CodecStep(call, result) ==
    /\ sign_pc = "codec"
    /\ Len(calls) < MaxCodecCalls
    /\ disk' = result.disk
    /\ calls' = Append(calls, call)
    /\ returns' = Append(returns, result)
    /\ UNCHANGED <<disk_in, sign_path, sign_formats, sign_i, signed_file, sign_pc, sign_error,
                   frame, locals, tasks, tmp_count, cmds, oplog, sfVars, bflVars, tokVars,
                   callVars>>

GetZipfileFiles ==
    LET raised == ListingError(ZipOpenError(disk, ZipPath))
    IN  CodecStep(CodecCall("_get_zipfile_files", ZipPath, <<>>, TRUE, "r", ""),
                  [disk  |-> disk,
                   files |-> IF raised = "" THEN _get_zipfile_files(disk, ZipPath) ELSE <<>>,
                   error |-> raised])

ExtractZipfile ==
    \/ CodecStep(CodecCall("_extract_zipfile", ZipPath, <<>>, TRUE, "r", ""),
                 _extract_zipfile(disk, ZipPath,
                                  IF ZipOpenError(disk, ZipPath) = ""
                                  THEN _get_zipfile_files(disk, ZipPath) ELSE <<>>,
                                  ScratchDir))
    \/ \E files \in ExtractLists :
            CodecStep(CodecCall("_extract_zipfile", ZipPath, files, FALSE, "r", ""),
                      _extract_zipfile(disk, ZipPath, files, ScratchDir))

CreateZipfile ==
    \E files \in CreateLists, mode \in {"w", "a"} :
        /\ mode = "a" => ZipOpenError(disk, ZipPath) \in {"", "FileNotFoundError"}
        /\ CodecStep(CodecCall("_create_zipfile", ZipPath, files, FALSE, mode, ""),
                     _create_zipfile(disk, ZipPath, files, SrcDir, mode))

\* _get_tarfile_files (508-514): with compression None the suffix of the
\* path decides; the archive is opened outside any try block.
_get_tarfile_files(d, from_, compression, given) ==
    LET kind   == _get_tarfile_compression(IF given THEN compression ELSE SplitExt(from_))
        raised == ListingError(TarOpenError(d, from_))
    IN  IF ~given /\ kind = "SigningScriptError"
        THEN [disk |-> d, files |-> <<>>, error |-> "SigningScriptError"]
        ELSE [disk  |-> d,
              files |-> IF raised = "" THEN Names(d[from_].members) ELSE <<>>,
              error |-> raised]

GetTarfileFiles ==
    \E given \in BOOLEAN :
        /\ given => _get_tarfile_compression(sign_formats[1]) # "SigningScriptError"
        /\ CodecStep(CodecCall("_get_tarfile_files", TarPath, <<>>, TRUE, "r",
                               IF given THEN sign_formats[1] ELSE "None"),
                     _get_tarfile_files(disk, TarPath, sign_formats[1], given))

ExtractTarfile ==
    CodecStep(CodecCall("_extract_tarfile", TarPath, <<>>, TRUE, "r", sign_formats[1]),
              _extract_tarfile(disk, TarPath, sign_formats[1], ScratchDir))

CreateTarfile ==
    \E files \in CreateLists :
        CodecStep(CodecCall("_create_tarfile", TarPath, files, FALSE, "w", sign_formats[1]),
                  _create_tarfile(disk, TarPath, files, sign_formats[1], SrcDir))

NextCodec ==
    \/ GetZipfileFiles
    \/ ExtractZipfile
    \/ CreateZipfile
    \/ GetTarfileFiles
    \/ ExtractTarfile
    \/ CreateTarfile

SpecCodec == InitCodec /\ [][NextCodec]_vars

(***************************************************************************)
(* build_signtool_cmd (sign.py 86-116) called on its own, the command      *)
(* written out in full.  An argument is the sequence of the path           *)
(* components it is joined from: <<"-v">>, <<work_dir, "nonce">>.          *)
(***************************************************************************)
WorkDir == "work_dir"

\* context.config['signtool']: one text, or a list of texts.
SigntoolChoices ==
    {[list |-> FALSE, items |-> <<<<"signtool">>>>],
     [list |-> TRUE, items |-> <<<<"signtool">>>>],
     [list |-> TRUE, items |-> <<<<"python">>, <<"signtool.py">>>>]}

DepScope == <<"project", "releng", "signing", "cert", "dep-signing">>

ReleaseScope == <<"project", "releng", "signing", "cert", "release-signing">>

GpgScope == <<"project", "releng", "signing", "format", "gpg">>

\* The scopes of the task: one certificate scope, none, two.
CmdScopeChoices ==
    {<<DepScope, GpgScope>>, <<GpgScope, ReleaseScope>>, <<GpgScope>>,
     <<DepScope, ReleaseScope>>}

\* The key of the roster a certificate scope is.
TierOf(scope) == IF scope[5] = "dep-signing" THEN DEP ELSE RELEASE

\* cmd.extend(["-H", s.server]) for each s, lines 111-114.
RECURSIVE HostArgs(_)
HostArgs(suitable) ==
    IF suitable = <<>> THEN <<>>
    ELSE <<<<"-H">>, <<Head(suitable).server>>>> \o HostArgs(Tail(suitable))

\* Mutant: every backend of the tier is named, whatever its formats.
SigntoolArgv_AllHosts(config, task, servers, from_, fmt, to) ==
    LET cert == task_cert_type(task)
    IN  IF cert.error # "" THEN cert
        ELSE Value(config.signtool.items
                    \o <<<<"-v">>, <<"-n">>, <<config.work_dir, "nonce">>,
                         <<"-t">>, <<config.work_dir, "token">>, <<"-c">>, <<config.ssl_cert>>>>
                    \o HostArgs(servers[TierOf(cert.value)])
                    \o <<<<"-f">>, <<fmt>>>>
                    \o <<<<"-o">>, IF to = <<>> THEN from_ ELSE to, from_>>)

\* The list build_signtool_cmd returns (lines 101-116), or the exception of
\* task_cert (line 105).
SigntoolArgv(config, task, servers, from_, fmt, to) ==
    LET cert == task_cert_type(task)
    IN  IF cert.error # "" THEN cert
        ELSE Value(config.signtool.items
                    \o <<<<"-v">>, <<"-n">>, <<config.work_dir, "nonce">>,
                         <<"-t">>, <<config.work_dir, "token">>, <<"-c">>, <<config.ssl_cert>>>>
                    \o HostArgs(get_suitable_signing_servers(servers, TierOf(cert.value),
                                                            <<fmt>>))
                    \o <<<<"-f">>, <<fmt>>>>
                    \o <<<<"-o">>, IF to = <<>> THEN from_ ELSE to, from_>>)

InitSigntoolCmd ==
    \E signtool \in SigntoolChoices, scopes \in CmdScopeChoices, servers \in RosterChoices,
       fmt \in {"gpg", "jar", "sha2signcode", "mar"}, to \in {<<>>, <<"to">>} :
        CallEntered("build_signtool_cmd",
                    [config  |-> [signtool |-> signtool, work_dir |-> WorkDir,
                                  ssl_cert |-> "cert"],
                     task    |-> [scopes |-> scopes],
                     signing_servers |-> servers,
                     from_   |-> <<"from">>,
                     fmt     |-> fmt,
                     to      |-> to])

BuildSigntoolCmd ==
    CallEnds("build_signtool_cmd",
             SigntoolArgv(call_args.config, call_args.task, call_args.signing_servers,
                          call_args.from_, call_args.fmt, call_args.to))

NextSigntoolCmd == BuildSigntoolCmd

SpecSigntoolCmd == InitSigntoolCmd /\ [][NextSigntoolCmd]_vars

(***************************************************************************)
(* Specification SpecResign: sign with both Widevine formats on one        *)
(* archive, so that sign_widevine runs on the archive once per format      *)
(* (task.py 29-30, 128-130).                                               *)
(***************************************************************************)
ResignFormats == {<<"widevine", "widevine_blessed">>, <<"widevine_blessed", "widevine">>}

ResignPaths == {Target(<<".zip">>), Target(<<".tar", ".gz">>), Target(<<".tar", ".bz2">>)}

InitResign ==
    /\ SfIdle /\ BflIdle /\ TokIdle /\ CallIdle
    /\ \E path \in ResignPaths, fmts \in ResignFormats, members \in WidevineArchives :
            SignEntered(path, fmts, members)

NextResign ==
    \/ SignCall
    \/ SignReturn
    \/ SignRaise
    \/ SignFinish
    \/ WvZipBegin
    \/ WvTarBegin
    \/ \E k \in 1..Len(tasks) : WvTaskStart(k)
    \/ \E k \in 1..Len(tasks) : WvTaskFinish(k)
    \/ WvJoin
    \/ WvZipRepack
    \/ WvTarRepack

SpecResign == InitResign /\ [][NextResign]_vars

(***************************************************************************)
(* Specification SpecResort: _sort_formats applied to a list and then to   *)
(* the list it returned, as build_filelist_dict (task.py 203-220) does     *)
(* once per path with the one list of an artifact.                         *)
(***************************************************************************)
SortFormatsAgain ==
    /\ sf_pc = "returned"
    /\ formats' = _sort_formats(formats)
    /\ sf_pc' = "returned again"
    /\ UNCHANGED <<formats_in, sfOther>>

NextResort == SortFormats \/ SortFormatsAgain

SpecResort == InitFormats /\ [][NextResort]_vars

(***************************************************************************)
(* Claims.                                                                 *)
(***************************************************************************)
NoRepeat(s) == \A i, j \in 1..Len(s) : i # j => s[i] # s[j]

IsLastFormat(f) == f \in Range(LAST_FORMATS)

NotLastFormat(f) == ~IsLastFormat(f)

Present(s, f) == IF f \in Range(s) THEN <<f>> ELSE <<>>

\* C1: for a list without repeated identifiers, _sort_formats returns a
\* permutation of it: the formats other than widevine, widevine_blessed and
\* gpg in their original relative order, then widevine, then
\* widevine_blessed, then gpg (each only if present); and
\* [widevine, jar, gpg] becomes [jar, widevine, gpg].
C1_SortOrder ==
    (sf_pc = "returned" /\ NoRepeat(formats_in)) =>
        /\ formats = SelectSeq(formats_in, NotLastFormat)
                        \o Present(formats_in, "widevine")
                        \o Present(formats_in, "widevine_blessed")
                        \o Present(formats_in, "gpg")
        /\ \A f \in FormatIds : Count(formats, f) = Count(formats_in, f)
        /\ Len(formats) = Len(formats_in)
        /\ ("gpg" \in Range(formats_in) => formats[Len(formats)] = "gpg")
        /\ (formats_in = <<"widevine", "jar", "gpg">> =>
                formats = <<"jar", "widevine", "gpg">>)

C1_Witness ==
    /\ sf_pc = "returned"
    /\ formats_in = <<"widevine", "jar", "gpg">>
    /\ formats = <<"jar", "widevine", "gpg">>

\* Every (artifact index, path) pair of the task, and what is wrong with it.
BflPairs ==
    UNION {{<<a, i>> : i \in 1..Len(upstream_in[a].paths)} : a \in DOMAIN upstream_in}

PairMissing(pr) ==
    FullPath(upstream_in[pr[1]].taskId, upstream_in[pr[1]].paths[pr[2]]) \notin on_disk

PairIllegal(pr) ==
    \E f \in Range(upstream_in[pr[1]].formats) : f \notin all_signing_formats_set

HasMessage(kind, pr) ==
    \E m \in 1..Len(messages) :
        /\ messages[m].kind = kind
        /\ messages[m].taskId = upstream_in[pr[1]].taskId
        /\ messages[m].path = upstream_in[pr[1]].paths[pr[2]]
        /\ (kind = "illegal" =>
                messages[m].illegal =
                    {f \in Range(upstream_in[pr[1]].formats) : f \notin all_signing_formats_set})

\* C10: build_filelist_dict raises only after it has examined every path of
\* every artifact; it raises exactly when some path is missing on disk or some
\* artifact requests a format outside the allowed set, and the error then
\* lists every missing path and every illegal-format violation; otherwise it
\* returns one entry per path, with the full path work_dir/cot/taskId/path
\* and the normalized formats of the artifact.
C10_BatchedVerification ==
    /\ (bfl_pc = "raised" =>
            /\ bfl_a > Len(upstream_in)
            /\ \A pr \in BflPairs :
                /\ (PairMissing(pr) => HasMessage("missing", pr))
                /\ (PairIllegal(pr) => HasMessage("illegal", pr)))
    /\ (bfl_pc \in {"raised", "returned"} =>
            (bfl_pc = "raised" <=>
                \E pr \in BflPairs : PairMissing(pr) \/ PairIllegal(pr)))
    /\ (bfl_pc = "returned" =>
            /\ DOMAIN FilelistResult =
                    UNION {Range(upstream_in[a].paths) : a \in DOMAIN upstream_in}
            /\ \A p \in DOMAIN FilelistResult :
                \E a \in DOMAIN upstream_in :
                    /\ p \in Range(upstream_in[a].paths)
                    /\ FilelistResult[p].full_path =
                            <<"work_dir", "cot", upstream_in[a].taskId, p>>
                    /\ FilelistResult[p].formats =
                            SelectSeq(upstream_in[a].formats, NotLastFormat)
                                \o Present(upstream_in[a].formats, "widevine")
                                \o Present(upstream_in[a].formats, "widevine_blessed")
                                \o Present(upstream_in[a].formats, "gpg"))

\* A raise that reports two missing paths and an illegal format at once.
C10_Witness ==
    /\ bfl_pc = "raised"
    /\ Cardinality({m \in 1..Len(messages) : messages[m].kind = "missing"}) >= 2
    /\ \E m \in 1..Len(messages) : messages[m].kind = "illegal"

\* The backends of the requested tier that support one of the requested formats.
SuitableIds ==
    {roster[cert_type][k].server : k \in
        {j \in 1..Len(roster[cert_type]) :
            \E f \in Range(tok_formats) : f \in roster[cert_type][j].formats}}

Replied(s, kind) == s \in DOMAIN replies /\ replies[s] = kind

\* No backend asked so far ended in an exception other than ScriptWorkerException.
OnlyRecoverableFailures == \A s \in DOMAIN replies : replies[s] # "OtherException"

\* C3: as long as the failures of the backends are recoverable ones
\* (ScriptWorkerException) or empty answers, get_token succeeds exactly when a
\* suitable backend returns a token; a backend that failed or returned no
\* token is skipped and the next one is tried; when every suitable backend
\* has failed, and when there is no suitable backend, it fails with
\* SigningServerError.
C3_TokenFailover ==
    /\ \A k \in 1..Len(requests) : requests[k] \in SuitableIds
    /\ (tok_pc \in {"write", "done"} <=> \E s \in SuitableIds : Replied(s, "token"))
    /\ (tok_pc \in {"write", "done"} =>
            \E s \in SuitableIds : Replied(s, "token") /\ token = <<"token", s>>)
    /\ ((tok_pc = "raised" /\ OnlyRecoverableFailures) =>
            /\ tok_error = "SigningServerError"
            /\ \A s \in SuitableIds :
                    Replied(s, "empty") \/ Replied(s, "ScriptWorkerException"))
    /\ ((tok_pc = "loop" /\ OnlyRecoverableFailures) =>
            /\ \A k \in 1..Len(requests) :
                    Replied(requests[k], "empty") \/ Replied(requests[k], "ScriptWorkerException")
            /\ (SuitableIds \ Range(requests) # {} => tok_i <= Len(tok_servers)))
    /\ (tok_pc = "done" => token_file = token)

\* A backend failed recoverably, another returned nothing, and no token was obtained.
C3_Witness ==
    /\ tok_pc = "raised"
    /\ tok_error = "SigningServerError"
    /\ \E s \in DOMAIN replies : replies[s] = "ScriptWorkerException"
    /\ \E s \in DOMAIN replies : replies[s] = "empty"


\* The strategy the dispatch table of task.py names for a format.
C2_Strategy(fmt) ==
    CASE fmt = "gpg" -> "sign_gpg"
      [] fmt = "jar" -> "sign_jar"
      [] fmt = "macapp" -> "sign_macapp"
      [] fmt \in {"osslsigncode", "sha2signcode", "signcode"} -> "sign_signcode"
      [] fmt \in {"widevine", "widevine_blessed"} -> "sign_widevine"
      [] OTHER -> "sign_file"

\* C2: sign runs one strategy per format in list order, the k-th call being
\* the strategy of the k-th format; a strategy is started only when all the
\* earlier ones have returned; the first receives the original path and each
\* later one the value the one before it returned; a format that is no key
\* of the dispatch table is handled by sign_file; a sign that returns has
\* run the strategy of every format.
C2_ChainOrder ==
    sign_pc # "idle" =>
        /\ Len(calls) <= Len(sign_formats)
        /\ \A k \in 1..Len(calls) :
            /\ calls[k].fmt = sign_formats[k]
            /\ calls[k].fn = C2_Strategy(sign_formats[k])
            /\ k - 1 <= Len(returns)
            /\ calls[k].arg = IF k = 1 THEN Str(sign_path) ELSE returns[k-1]
        /\ Len(returns) \in {Len(calls), Len(calls) - 1}
        /\ sign_pc = "awaiting" =>
            /\ Len(returns) = Len(calls) - 1
            /\ frame.fn = calls[Len(calls)].fn
            /\ frame.fmt = calls[Len(calls)].fmt
        /\ sign_pc = "loop" => Len(returns) = Len(calls)
        /\ sign_pc = "done" =>
            /\ Len(calls) = Len(sign_formats)
            /\ Len(returns) = Len(calls)

\* A chain of three has completed, one format of it was not in the table,
\* and a later strategy received a path other than the original one.
C2_Witness ==
    /\ sign_pc = "done"
    /\ Len(calls) = 3
    /\ \E k \in 1..3 : calls[k].fn = "sign_file" /\ calls[k].fmt = "mar"
    /\ \E k \in 2..3 : calls[k].arg # Str(sign_path)

\* The Widevine strategy has ended: it has returned or raised.
WvEnded == sign_pc = "awaiting" /\ frame.pc \in {"return", "raise"}

SupportedContainer(p) ==
    \/ EndsWith(p, <<".zip">>)
    \/ EndsWith(p, <<".tar", ".gz">>)
    \/ EndsWith(p, <<".tar", ".bz2">>)

\* The members of the archive sign was given.
OrigMembers == disk_in[sign_path].members

\* The classification of the listing of the archive sign was given.
OrigClassified == _should_sign_widevine(Names(OrigMembers))

HasOp(op) == \E i \in 1..Len(oplog) : oplog[i].op = op

\* C4: for a zip with signable members lacking a .sig sibling, when every
\* member signing succeeds, sign_widevine returns and the archive then holds
\* the original members unchanged followed by exactly one <member>.sig per
\* classified member.
C4_ZipGainsSigMembers ==
    ( /\ EndsWith(sign_path, <<".zip">>)
      /\ OrigClassified # <<>>
      /\ WvEnded
      /\ tasks # <<>>
      /\ \A k \in 1..Len(tasks) : tasks[k].state = "ok" )
    => /\ frame.pc = "return"
       /\ frame.ret = Str(sign_path)
       /\ LET now == disk[sign_path].members
              n   == Len(OrigMembers)
          IN  /\ Len(now) = n + Len(OrigClassified)
              /\ SubSeq(now, 1, n) = OrigMembers
              /\ \A i \in 1..Len(OrigClassified) :
                    now[n + i].name = AddSuffix(OrigClassified[i].path, ".sig")

\* C5: in both Widevine strategies the repack starts only when every member
\* signing launched for the batch has finished, whatever the interleaving.
C5_RepackAfterAllSigned ==
    ((sign_pc = "awaiting" /\ frame.pc = "repack") \/ HasOp("create"))
        => \A k \in 1..Len(tasks) : tasks[k].state \in {"ok", "FailedSubprocess"}

\* A tar batch of two or more member signings, the second of which ended
\* first, has been repacked.
C5_Witness ==
    /\ HasOp("create")
    /\ locals.container = "tar"
    /\ Len(tasks) >= 2
    /\ tasks[2].seq = 1
    /\ tasks[1].seq = 2

\* A member signing failure has left the Widevine strategy.
WvFailureRaised ==
    \/ sign_pc = "awaiting" /\ frame.pc = "raise" /\ frame.err = "FailedSubprocess"
    \/ sign_pc = "raised" /\ sign_error = "FailedSubprocess"

SomeTaskFailed == \E k \in 1..Len(tasks) : tasks[k].state = "FailedSubprocess"

\* C6: when a member signing of a batch fails, the strategy raises, and only
\* once every launched member signing has finished (none is left unstarted
\* or running); the failure raised is that of a member signing that did
\* fail; a batch with a failure is never repacked nor reported signed.
C6_FailureAfterAllFinished ==
    /\ WvFailureRaised =>
        /\ \A k \in 1..Len(tasks) : tasks[k].state \in {"ok", "FailedSubprocess"}
        /\ locals.k \in 1..Len(tasks)
        /\ tasks[locals.k].state = "FailedSubprocess"
    /\ SomeTaskFailed =>
        /\ ~HasOp("create")
        /\ sign_pc \in {"awaiting", "raised"}
        /\ sign_pc = "awaiting" => frame.pc \in {"gather", "raise"}

\* The first member signing failed first, its sibling went on to succeed,
\* and then the failure was raised.
C6_Witness ==
    /\ sign_pc = "raised"
    /\ sign_error = "FailedSubprocess"
    /\ Len(tasks) >= 2
    /\ tasks[1].state = "FailedSubprocess" /\ tasks[1].seq = 1
    /\ tasks[2].state = "ok" /\ tasks[2].seq = 2

\* C7: sign_widevine on a path ending in none of .zip, .tar.gz, .tar.bz2
\* fails with SigningScriptError and nothing else happens: no scratch
\* directory, no listing, extraction, signing or repacking, no return.
C7_UnknownContainerFails ==
    (sign_pc # "idle" /\ ~SupportedContainer(sign_path)) =>
        /\ tmp_count = 0
        /\ oplog = <<>>
        /\ cmds = <<>>
        /\ tasks = <<>>
        /\ disk = disk_in
        /\ returns = <<>>
        /\ sign_pc \in {"loop", "awaiting", "raised"}
        /\ sign_pc = "loop" => calls = <<>>
        /\ sign_pc = "awaiting" =>
            /\ frame.pc \in {"start", "raise"}
            /\ frame.pc = "raise" => frame.err = "SigningScriptError"
        /\ sign_pc = "raised" => sign_error = "SigningScriptError"

\* sign_widevine has failed on an unsupported path whose file holds a
\* signable member.
C7_Witness ==
    /\ sign_pc = "raised"
    /\ sign_error = "SigningScriptError"
    /\ ~SupportedContainer(sign_path)
    /\ calls[1].fn = "sign_widevine"
    /\ Firefox \in Range(OrigMembers)

\* C8: when the classification of the members of a zip or tar archive is
\* empty, sign_widevine launches no signing, does not repack, leaves the
\* archive at the original path as it was and returns the original path.
C8_EmptyClassificationNoEffect ==
    (sign_pc # "idle" /\ SupportedContainer(sign_path) /\ OrigClassified = <<>>) =>
        /\ cmds = <<>>
        /\ tasks = <<>>
        /\ ~HasOp("create")
        /\ disk[sign_path] = disk_in[sign_path]
        /\ sign_pc # "raised"
        /\ sign_pc = "awaiting" =>
            /\ frame.pc \in {"start", "return"}
            /\ frame.pc = "return" => frame.ret = Str(sign_path)
        /\ \A k \in 1..Len(returns) : returns[k] = Str(sign_path)
        /\ sign_pc = "done" => signed_file = List(<<sign_path>>)

\* sign has returned for an archive whose only signable member already has
\* its .sig sibling.
C8_Witness ==
    /\ sign_pc = "done"
    /\ SupportedContainer(sign_path)
    /\ Firefox \in Range(OrigMembers)
    /\ FirefoxSig \in Range(OrigMembers)
    /\ OrigClassified = <<>>
    /\ returns = <<Str(sign_path)>>

SomeCommandFailed == \E i \in 1..Len(cmds) : cmds[i].status = "FailedSubprocess"

\* C9: a strategy failure is fatal: once an external command has failed
\* sign neither goes on to the next format nor returns; the failure is
\* what sign raises, the failed call is the last one, the failed command is
\* not launched again and there is no result list.
C9_StrategyFailureFatal ==
    /\ SomeCommandFailed =>
        /\ sign_pc \in {"awaiting", "raised"}
        /\ sign_pc = "awaiting" => frame.pc \in {"raise", "gather"}
    /\ sign_error # "" =>
        /\ sign_pc = "raised"
        /\ Len(calls) = Len(returns) + 1
        /\ Len(calls) = sign_i
        /\ ~signed_file.list
        /\ frame = NoFrame
    /\ \A i, j \in 1..Len(cmds) :
        (i < j /\ cmds[i].status = "FailedSubprocess") => cmds[j].cmd # cmds[i].cmd

\* The command of the second of three formats failed: sign raised that
\* failure with the third format not run.
C9_Witness ==
    /\ sign_pc = "raised"
    /\ sign_error = "FailedSubprocess"
    /\ Len(sign_formats) = 3
    /\ sign_i = 2
    /\ Len(returns) = 1
    /\ cmds[Len(cmds)].status = "FailedSubprocess"


\* The positions of the scopes that carry the certificate-tier prefix.
CertPositions(scopes) == {i \in 1..Len(scopes) : IsCertScope(scopes[i])}

\* C11: task_cert_type returns the certificate-tier scope when exactly one
\* of the task's scopes carries the certificate-tier prefix, whatever the
\* other scopes are, and raises TaskVerificationError when none or two or
\* more do.
C11_CertTypeExactlyOne ==
    (call_fn = "task_cert_type" /\ call_pc = "done") =>
        LET at == CertPositions(call_args.scopes)
        IN  IF Cardinality(at) = 1
                THEN call_result = Value(call_args.scopes[CHOOSE i \in at : TRUE])
                ELSE call_result = Error("TaskVerificationError")

\* The one certificate scope was returned from between two other scopes.
C11_Witness ==
    /\ call_fn = "task_cert_type" /\ call_pc = "done"
    /\ Len(call_args.scopes) = 3
    /\ CertPositions(call_args.scopes) = {2}
    /\ call_result.error = ""
    /\ call_result.value = call_args.scopes[2]


\* The positions in roster[tier] of the backends that support at least one
\* of the requested formats.
SuitablePositions(servers, tier, fmts) ==
    {i \in 1..Len(servers[tier]) :
        \E f \in servers[tier][i].formats : \E k \in 1..Len(fmts) : fmts[k] = f}

\* The k-th smallest element of a set of numbers.
KthOf(S, k) == CHOOSE i \in S : Cardinality({j \in S : j < i}) = k - 1

\* C12: get_suitable_signing_servers returns exactly the backends of
\* roster[tier] whose formats share a format with the request, each once
\* and in roster order; no backend of another tier appears; the result is
\* empty when no backend's formats meet the request.
C12_SuitableServers ==
    (call_fn = "get_suitable_signing_servers" /\ call_pc = "done") =>
        LET servers == call_args.signing_servers
            tier    == call_args.cert_type
            at      == SuitablePositions(servers, tier, call_args.signing_formats)
            got     == call_result.value
        IN  /\ call_result.error = ""
            /\ Len(got) = Cardinality(at)
            /\ \A k \in 1..Len(got) : got[k] = servers[tier][KthOf(at, k)]
            /\ \A k \in 1..Len(got), t \in (DOMAIN servers) \ {tier} :
                    \A j \in 1..Len(servers[t]) : got[k] # servers[t][j]
            /\ at = {} => got = <<>>

\* Of three backends of the tier the first and the third were returned for
\* a request of two formats.
C12_Witness ==
    /\ call_fn = "get_suitable_signing_servers" /\ call_pc = "done"
    /\ Len(call_args.signing_formats) = 2
    /\ Len(call_args.signing_servers[call_args.cert_type]) = 3
    /\ SuitablePositions(call_args.signing_servers, call_args.cert_type,
                         call_args.signing_formats) = {1, 3}
    /\ Len(call_result.value) = 2


Classified == call_fn = "_should_sign_widevine" /\ call_pc = "done"

\* The result maps path p to sub-format fmt.
MapsTo(p, fmt) ==
    \E i \in 1..Len(call_result.value) :
        call_result.value[i].path = p /\ call_result.value[i].fmt = fmt

IsKey(p) == \E i \in 1..Len(call_result.value) : call_result.value[i].path = p

InListing(p) == \E k \in 1..Len(call_args.file_list) : call_args.file_list[k] = p

\* The base name of p as a name of the blessed / non-blessed set.
BlessedName(p) == <<p.stem>> \o p.exts \in _WIDEVINE_BLESSED_FILENAMES

NonBlessedName(p) == <<p.stem>> \o p.exts \in _WIDEVINE_NONBLESSED_FILENAMES

\* C13: the classification looks at base names only: a listed path without
\* a .sig sibling maps to widevine_blessed exactly when its base name is a
\* blessed name and to widevine exactly when it is a non-blessed name,
\* whatever its directory; a path with another base name is no key; every
\* key is a listed path and has exactly one sub-format.
C13_BaseNameOnly ==
    Classified =>
        /\ \A p \in ListingPaths :
            (InListing(p) /\ ~InListing(AddSuffix(p, ".sig"))) =>
                /\ MapsTo(p, "widevine_blessed") <=> BlessedName(p)
                /\ MapsTo(p, "widevine") <=> NonBlessedName(p)
        /\ \A p \in ListingPaths :
            (~BlessedName(p) /\ ~NonBlessedName(p)) => ~IsKey(p)
        /\ \A i \in 1..Len(call_result.value) :
            /\ InListing(call_result.value[i].path)
            /\ call_result.value[i].fmt \in {"widevine", "widevine_blessed"}
            /\ \A j \in 1..Len(call_result.value) :
                    call_result.value[j].path = call_result.value[i].path => j = i

\* Two signable names inside a directory and another name were listed; the
\* two were classified, each with its sub-format.
C13_Witness ==
    /\ Classified
    /\ call_args.file_list =
            <<Path(<<"y">>, "firefox", <<>>), Unrelated.name, PluginContainer.name>>
    /\ MapsTo(Path(<<"y">>, "firefox", <<>>), "widevine")
    /\ MapsTo(PluginContainer.name, "widevine_blessed")
    /\ Len(call_result.value) = 2

\* C14: the classification never holds a path p with p.sig in the same
\* listing; a listing in which every signable member has its .sig sibling
\* gives the empty classification.
C14_AlreadySignedSkipped ==
    Classified =>
        /\ \A p \in ListingPaths : IsKey(p) => ~InListing(AddSuffix(p, ".sig"))
        /\ (\A p \in ListingPaths :
                (InListing(p) /\ (BlessedName(p) \/ NonBlessedName(p)))
                    => InListing(AddSuffix(p, ".sig")))
            => call_result.value = <<>>

\* Both signable members listed have their .sig sibling: nothing is
\* classified.
C14_Witness ==
    /\ Classified
    /\ InListing(Firefox.name)
    /\ InListing(FirefoxSig.name)
    /\ InListing(Unrelated.name)
    /\ call_result.value = <<>>


\* The files the Windows check accepts, as C16 words it.
WindowsSignable(p) ==
    /\ p.exts # <<>>
    /\ p.exts[Len(p.exts)] \in {".dll", ".exe"}
    /\ <<p.stem>> \o p.exts \notin
            {<<"D3DCompiler_42", ".dll">>, <<"d3dx9_42", ".dll">>,
             <<"D3DCompiler_43", ".dll">>, <<"d3dx9_43", ".dll">>}
    /\ ~(p.stem \in {"msvc", "msvc140", "msvcblah"} /\ p.exts[Len(p.exts)] = ".dll")

IsZipInput == sign_path.exts # <<>> /\ sign_path.exts[Len(sign_path.exts)] = ".zip"

\* The files sign_signcode may sign: the extracted members of a zip, or the
\* input itself.
SigncodeCandidates ==
    IF IsZipInput
        THEN {[OrigMembers[i].name EXCEPT !.dir = <<"zip.1">> \o @] : i \in 1..Len(OrigMembers)}
        ELSE {sign_path}

CommandsOn(f) == {i \in 1..Len(cmds) : cmds[i].cmd.from_ = f}

SigncodeReturned == (sign_pc = "awaiting" /\ frame.pc = "return") \/ returns # <<>>

\* C15: sign_signcode signs, in place and at most once, only files the
\* Windows check accepts among the extracted members of a zip (or the input
\* itself when it is no zip); the zip is rebuilt only when every accepted
\* member has been signed; when the strategy returns, each accepted file was
\* signed exactly once, the zip holds the full original member list with
\* the signed members' new content and the others unchanged, a non-zip
\* input saw no extraction and no rebuild, and the value returned is the
\* original path.
C15_SigncodeZipRoundTrip ==
    sign_pc # "idle" =>
        /\ \A i \in 1..Len(cmds) :
            /\ cmds[i].cmd.tool = "signtool"
            /\ cmds[i].cmd.fmt = sign_formats[1]
            /\ cmds[i].cmd.to = cmds[i].cmd.from_
            /\ cmds[i].cmd.from_ \in SigncodeCandidates
            /\ WindowsSignable(cmds[i].cmd.from_)
            /\ CommandsOn(cmds[i].cmd.from_) = {i}
        /\ ~IsZipInput => (oplog = <<>> /\ tmp_count = 0)
        /\ HasOp("create") =>
            /\ IsZipInput
            /\ HasOp("extract")
            /\ \A f \in SigncodeCandidates :
                WindowsSignable(f) => \E i \in CommandsOn(f) : cmds[i].status = "ok"
        /\ SigncodeReturned =>
            /\ \A f \in SigncodeCandidates :
                WindowsSignable(f) => \E i \in CommandsOn(f) : cmds[i].status = "ok"
            /\ \A k \in 1..Len(returns) : returns[k] = Str(sign_path)
            /\ sign_pc = "awaiting" => frame.ret = Str(sign_path)
            /\ IF IsZipInput
                  THEN /\ HasOp("create")
                       /\ Names(disk[sign_path].members) = Names(OrigMembers)
                       /\ \A k \in 1..Len(OrigMembers) :
                            disk[sign_path].members[k].data =
                                IF WindowsSignable(OrigMembers[k].name)
                                    THEN ToolOutput(OrigMembers[k].data, sign_formats[1])
                                    ELSE OrigMembers[k].data
                  ELSE disk[sign_path] =
                            IF WindowsSignable(sign_path)
                                THEN ToolOutput(disk_in[sign_path], sign_formats[1])
                                ELSE disk_in[sign_path]

\* A zip with two accepted members and one rejected member was signed and
\* rebuilt, and sign returned.
C15_Witness ==
    /\ sign_pc = "done"
    /\ IsZipInput
    /\ OrigMembers = <<SetupExe, Unrelated, FooDll>>
    /\ Len(cmds) = 2
    /\ HasOp("create")
    /\ signed_file = List(<<sign_path>>)


WindowsChecked == call_fn = "_should_sign_windows" /\ call_pc = "done"

\* The base name of p is one of the four fixed names of the denylist, or
\* begins with msvc and ends with .dll.
OnDenylist(p) ==
    \/ /\ p.stem \in {"D3DCompiler_42", "d3dx9_42", "D3DCompiler_43", "d3dx9_43"}
       /\ p.exts = <<".dll">>
    \/ /\ p.stem \in {"msvc", "msvc140", "msvcblah"}
       /\ p.exts # <<>>
       /\ p.exts[Len(p.exts)] = ".dll"

\* C16: _should_sign_windows is true exactly when the extension is .dll or
\* .exe and the base name matches no pattern of the denylist; foo.dll and
\* setup.exe are signable, D3DCompiler_42.dll, msvc140.dll and readme.txt
\* are not.
C16_WindowsSignability ==
    WindowsChecked =>
        LET p == call_args.filename
            ext == IF p.exts = <<>> THEN "" ELSE p.exts[Len(p.exts)]
        IN  /\ call_result.value = (ext \in {".dll", ".exe"} /\ ~OnDenylist(p))
            /\ (p.stem = "foo" /\ p.exts = <<".dll">>) => call_result.value = TRUE
            /\ (p.stem = "setup" /\ p.exts = <<".exe">>) => call_result.value = TRUE
            /\ (p.stem = "D3DCompiler_42" /\ p.exts = <<".dll">>) => call_result.value = FALSE
            /\ (p.stem = "msvc140" /\ p.exts = <<".dll">>) => call_result.value = FALSE
            /\ (p.stem = "readme" /\ p.exts = <<".txt">>) => call_result.value = FALSE

\* msvc140.dll in a directory was rejected by the wildcard pattern.
C16_Witness ==
    /\ WindowsChecked
    /\ call_args.filename = Path(<<"x">>, "msvc140", <<".dll">>)
    /\ call_result.value = FALSE


\* The commands only sign_macapp launches: the conversion tools and the
\* signing with the macapp format.
IsMacappCmd(c) ==
    c.cmd.tool \in {"dmg", "hfsplus", "tar"} \/ (c.cmd.tool = "signtool" /\ c.cmd.fmt = "macapp")

MacappCmds == SelectSeq(cmds, IsMacappCmd)

MacappCalls == {k \in 1..Len(calls) : calls[k].fn = "sign_macapp"}

\* p with its last suffix replaced by .tar.gz.
AsTarGz(p) == [p EXCEPT !.exts = SubSeq(@, 1, Len(@) - 1) \o <<".tar", ".gz">>]

IsDmg(p) == p.exts # <<>> /\ p.exts[Len(p.exts)] = ".dmg"

\* C17: for a .dmg input sign_macapp runs image extraction, filesystem
\* extraction and tar in that order, each only after the one before it
\* succeeded, then signs the .tar.gz path in place and returns that path,
\* never the .dmg path; for any other input it runs no conversion, signs
\* the input in place and returns the input path.
C17_MacappConversion ==
    sign_pc # "idle" =>
        /\ MacappCalls = {} => MacappCmds = <<>>
        /\ \A k \in MacappCalls :
            LET p      == calls[k].arg.paths[1]
                target == IF IsDmg(p) THEN AsTarGz(p) ELSE p
                tools  == IF IsDmg(p) THEN <<"dmg", "hfsplus", "tar", "signtool">>
                                      ELSE <<"signtool">>
                m      == MacappCmds
            IN  /\ Len(m) <= Len(tools)
                /\ \A i \in 1..Len(m) :
                    /\ m[i].cmd.tool = tools[i]
                    /\ i < Len(m) => m[i].status = "ok"
                    /\ m[i].cmd.tool = "tar" => m[i].cmd.to = target
                    /\ m[i].cmd.tool = "signtool" =>
                        (m[i].cmd.from_ = target /\ m[i].cmd.to = target)
                /\ Len(returns) >= k =>
                    /\ Len(m) = Len(tools)
                    /\ m[Len(m)].status = "ok"
                    /\ returns[k] = Str(target)
                    /\ IsDmg(p) => returns[k] # Str(p)

\* sign_macapp converted a .dmg with three commands, signed the tarball and
\* returned the .tar.gz path, and sign went on to completion.
C17_Witness ==
    /\ sign_pc = "done"
    /\ Len(calls) >= 1
    /\ calls[1].fn = "sign_macapp"
    /\ IsDmg(sign_path)
    /\ Len(MacappCmds) = 4
    /\ returns[1] = Str(Target(<<".tar", ".gz">>))


GpgCalls == {k \in 1..Len(calls) : calls[k].fn = "sign_gpg"}

GpgCmds == SelectSeq(cmds, LAMBDA c : c.cmd.tool = "signtool" /\ c.cmd.fmt = "gpg")

\* p with .asc appended.
Asc(p) == [p EXCEPT !.exts = @ \o <<".asc">>]

\* C18: sign_gpg runs direct signing with the artifact as source and
\* artifact.asc as target, never the artifact itself, and returns the list
\* [artifact, artifact.asc]; sign returns two paths when gpg is the last
\* format and one path when gpg is not among the formats.
C18_GpgDetached ==
    sign_pc # "idle" =>
        /\ GpgCalls = {} => GpgCmds = <<>>
        /\ \A k \in GpgCalls :
            LET p == calls[k].arg.paths[1]
            IN  /\ Len(GpgCmds) <= 1
                /\ \A i \in 1..Len(GpgCmds) :
                    /\ GpgCmds[i].cmd.from_ = p
                    /\ GpgCmds[i].cmd.to = Asc(p)
                    /\ GpgCmds[i].cmd.to # p
                /\ \A q \in DOMAIN disk : q # Asc(p) =>
                        \A j \in 1..Len(disk[q].ops) : disk[q].ops[j] # "gpg"
                /\ Len(returns) >= k =>
                    /\ returns[k] = List(<<p, Asc(p)>>)
                    /\ Len(GpgCmds) = 1
                    /\ GpgCmds[1].status = "ok"
                    /\ Asc(p) \in DOMAIN disk
        /\ sign_pc = "done" =>
            /\ signed_file.list
            /\ (sign_formats # <<>> /\ sign_formats[Len(sign_formats)] = "gpg")
                    => Len(signed_file.paths) = 2
            /\ (\A k \in 1..Len(sign_formats) : sign_formats[k] # "gpg")
                    => Len(signed_file.paths) = 1

\* A chain of three formats ending with gpg has completed: sign returned
\* the artifact and its .asc, and the .asc exists.
C18_Witness ==
    /\ sign_pc = "done"
    /\ Len(sign_formats) = 3
    /\ sign_formats[3] = "gpg"
    /\ Len(signed_file.paths) = 2
    /\ signed_file.paths[2] = Asc(signed_file.paths[1])
    /\ signed_file.paths[2] \in DOMAIN disk


JarCalls == {k \in 1..Len(calls) : calls[k].fn = "sign_jar"}

JarCmds ==
    SelectSeq(cmds, LAMBDA c : c.cmd.tool = "zipalign"
                                \/ (c.cmd.tool = "signtool" /\ c.cmd.fmt = "jar"))

WrittenBy(content, tool) == \E j \in 1..Len(content.ops) : content.ops[j] = tool

\* C19: sign_jar runs direct signing in place and then the alignment tool,
\* once each, the alignment only after the signing succeeded; when the
\* alignment tool fails the file at the original path is not replaced;
\* when both succeed the file is the aligned copy of the signed file and
\* the input path is returned.
C19_JarSignThenAlign ==
    sign_pc # "idle" =>
        /\ JarCalls = {} => JarCmds = <<>>
        /\ \A k \in JarCalls :
            LET p == calls[k].arg.paths[1]
                m == JarCmds
            IN  /\ Len(m) <= 2
                /\ Len(m) >= 1 =>
                    /\ m[1].cmd.tool = "signtool"
                    /\ m[1].cmd.from_ = p
                    /\ m[1].cmd.to = p
                /\ Len(m) = 2 =>
                    /\ m[1].status = "ok"
                    /\ m[2].cmd.tool = "zipalign"
                    /\ m[2].cmd.from_ = p
                    /\ m[2].cmd.to # p
                /\ (Len(m) = 2 /\ m[2].status = "FailedSubprocess") =>
                    /\ ~WrittenBy(disk[p], "zipalign")
                    /\ WrittenBy(disk[p], "jar")
                    /\ Len(returns) < k
                /\ (Len(m) >= 1 /\ m[1].status = "FailedSubprocess") =>
                    /\ Len(m) = 1
                    /\ ~WrittenBy(disk[p], "jar")
                    /\ ~WrittenBy(disk[p], "zipalign")
                    /\ Len(returns) < k
                /\ (sign_pc = "awaiting" /\ frame.fn = "sign_jar" /\ frame.pc = "return") =>
                    /\ Len(disk[p].ops) >= 2
                    /\ SubSeq(disk[p].ops, Len(disk[p].ops) - 1, Len(disk[p].ops))
                            = <<"jar", "zipalign">>
                /\ Len(returns) >= k =>
                    /\ Len(m) = 2
                    /\ m[1].status = "ok" /\ m[2].status = "ok"
                    /\ returns[k] = Str(p)

\* The signing of an .apk succeeded and the alignment tool then failed:
\* sign raised and the file is the signed, unaligned one.
C19_Witness ==
    /\ sign_pc = "raised"
    /\ calls[1].fn = "sign_jar"
    /\ sign_path = Target(<<".apk">>)
    /\ Len(JarCmds) = 2
    /\ JarCmds[2].status = "FailedSubprocess"
    /\ WrittenBy(disk[sign_path], "jar")
    /\ ~WrittenBy(disk[sign_path], "zipalign")


IsTarInput == EndsWith(sign_path, <<".tar", ".gz">>) \/ EndsWith(sign_path, <<".tar", ".bz2">>)

\* C20: after Widevine signing of a tar archive with at least one
\* qualifying member, every member signing having succeeded, the strategy
\* has returned and the archive at the original path holds every member
\* the original held, one <member>.sig for each classified member, and
\* nothing else.
C20_TarRewrittenWithSigs ==
    ( /\ IsTarInput
      /\ OrigClassified # <<>>
      /\ WvEnded
      /\ tasks # <<>>
      /\ \A k \in 1..Len(tasks) : tasks[k].state = "ok" )
    => /\ frame.pc = "return"
       /\ frame.ret = Str(sign_path)
       /\ LET now  == Names(disk[sign_path].members)
              sigs == {AddSuffix(OrigClassified[i].path, ".sig") : i \in 1..Len(OrigClassified)}
          IN  /\ Range(now) = Range(Names(OrigMembers)) \cup sigs
              /\ Len(now) = Len(OrigMembers) + Len(OrigClassified)


\* The member signings of the batch that have been launched.
Launched == {k \in 1..Len(tasks) : tasks[k].cmd > 0}

\* The path the command of member signing k writes: its -o target.
WritesOf(k) == {cmds[tasks[k].cmd].cmd.to}

\* C21: in a Widevine batch the paths written by one member signing are
\* disjoint from those written by every other member signing of the batch,
\* and each lies in the scratch directory of the batch.
C21_DisjointWrites ==
    /\ \A j \in Launched, k \in Launched : j # k => WritesOf(j) \cap WritesOf(k) = {}
    /\ \A k \in Launched : \A w \in WritesOf(k) :
            /\ w.dir # <<>>
            /\ w.dir[1] = locals.tmp_dir
            /\ w # sign_path

\* Two member signings of a batch are running at the same time.
C21_Witness ==
    /\ Len(tasks) >= 2
    /\ tasks[1].state = "running"
    /\ tasks[2].state = "running"
    /\ WritesOf(1) # WritesOf(2)


\* C22: no step of get_token, the selection of the suitable backends and
\* the shuffle included, changes the roster: every tier keeps the same
\* backends in the same order.
C22_RosterReadOnly == [][roster' = roster]_vars

\* A token was obtained after the suitable backends were shuffled into an
\* order other than the roster's.
C22_Witness ==
    /\ tok_pc = "done"
    /\ Len(tok_servers) >= 2
    /\ tok_servers # SelectSeq(roster[cert_type],
                               LAMBDA s : \E f \in s.formats : \E k \in 1..Len(tok_formats) :
                                                tok_formats[k] = f)


\* The call at position i of a codec sequence was fn and raised nothing.
CodecOk(i, fn) ==
    /\ i \in 1..Len(calls)
    /\ calls[i].fn = fn
    /\ returns[i].error = ""

\* A creation at position i followed by an extraction of the whole archive,
\* both of the same family and both successful.
RoundTripAt(i) ==
    \/ CodecOk(i, "_create_zipfile") /\ CodecOk(i + 1, "_extract_zipfile") /\ calls[i + 1].all
    \/ CodecOk(i, "_create_tarfile") /\ CodecOk(i + 1, "_extract_tarfile")

\* Where a source file is expected below the scratch directory.
InScratch(f) == [f EXCEPT !.dir = <<ScratchDir>> \o Tail(@)]

\* C23: creating a zip or a tar archive from files and then extracting it
\* into a scratch directory leaves, for every file put in, a regular file at
\* the same relative path with the same content, and returns its path.
C23_RoundTrip ==
    \A i \in 1..Len(calls) :
        RoundTripAt(i) =>
            \A k \in 1..Len(calls[i].files) :
                LET f == calls[i].files[k]
                    after == returns[i + 1].disk
                IN  /\ InScratch(f) \in DOMAIN after
                    /\ after[InScratch(f)].kind = "file"
                    /\ after[InScratch(f)] = disk_in[f]
                    /\ \E n \in 1..Len(returns[i + 1].files) :
                            returns[i + 1].files[n] = InScratch(f)

\* A tar archive made of a file and a file in a subdirectory was extracted.
C23_Witness ==
    /\ Len(calls) = 2
    /\ RoundTripAt(1)
    /\ calls[1].fn = "_create_tarfile"
    /\ calls[1].files = <<SrcA, SrcB>>
    /\ InScratch(SrcB) \in DOMAIN disk


\* The disk the call at position i of a codec sequence started from.
DiskBefore(i) == IF i = 1 THEN disk_in ELSE returns[i - 1].disk

\* The call at position i is a successful extraction.
ExtractedAt(i) == CodecOk(i, "_extract_zipfile") \/ CodecOk(i, "_extract_tarfile")

\* The member names the extraction at position i was asked for.
AskedAt(i) ==
    IF calls[i].all
    THEN {m.name : m \in Range(DiskBefore(i)[calls[i].path].members)}
    ELSE Range(calls[i].files)

ScratchPaths(d) == {q \in DOMAIN d : q.dir # <<>> /\ q.dir[1] = ScratchDir}

\* C24: after a successful extraction the scratch directory holds the
\* members asked for (all of them, or the named ones of a zip) and nothing
\* else, whatever it held before, the paths returned are those of the named
\* members, and the same extraction made again leaves the same disk and
\* returns the same paths.
C24_ExtractionStartsClean ==
    \A i \in 1..Len(calls) :
        ExtractedAt(i) =>
            /\ ScratchPaths(returns[i].disk)
                    = {[n EXCEPT !.dir = <<ScratchDir>> \o @] : n \in AskedAt(i)}
            /\ Range(returns[i].files) = ScratchPaths(returns[i].disk)
            /\ \A q \in DOMAIN DiskBefore(i) :
                    q \notin ScratchPaths(DiskBefore(i)) =>
                        q \in DOMAIN returns[i].disk /\ returns[i].disk[q] = DiskBefore(i)[q]
            /\ (ExtractedAt(i + 1) /\ calls[i + 1] = calls[i]) =>
                    /\ returns[i + 1].disk = returns[i].disk
                    /\ returns[i + 1].files = returns[i].files

\* One named member of a zip was extracted twice into a scratch directory
\* that held an older file.
C24_Witness ==
    /\ Len(calls) = 2
    /\ ExtractedAt(1) /\ ExtractedAt(2)
    /\ calls[1] = calls[2]
    /\ calls[1].fn = "_extract_zipfile"
    /\ ~calls[1].all
    /\ StalePath \in DOMAIN disk_in
    /\ StalePath \notin DOMAIN disk
    /\ Len(disk_in[ZipPath].members) > Len(calls[1].files)


\* C25: whatever call of the codec fails (listing, extraction or creation,
\* zip or tar), the error that reaches the caller is SigningScriptError.
C25_OnlyDomainErrors ==
    \A i \in 1..Len(returns) : returns[i].error \in {"", "SigningScriptError"}


\* The call at position i is a tar extraction or a tar creation.
TarCallAt(i) == calls[i].fn \in {"_extract_tarfile", "_create_tarfile"}

\* The supported compression kinds, with and without the dot.
SupportedCompression == {"gz", ".gz", "bz2", ".bz2"}

\* Compression suffixes of another kind.
OtherCompression == {"xz", ".xz", ""}

\* C26: a tar extraction or creation given gz or bz2, with or without the
\* dot, does not fail on the compression (it fails only if the archive
\* cannot be read, or a file to add is missing); given a suffix of another
\* kind it raises SigningScriptError and leaves the whole disk, the scratch
\* directory and the destination included, as it was.
C26_TarCompression ==
    \A i \in 1..Len(calls) :
        TarCallAt(i) =>
            /\ calls[i].compression \in OtherCompression =>
                    /\ returns[i].error = "SigningScriptError"
                    /\ returns[i].disk = DiskBefore(i)
            /\ calls[i].compression \in SupportedCompression =>
                    IF calls[i].fn = "_extract_tarfile"
                    THEN returns[i].error = "" <=>
                            /\ TarPath \in DOMAIN DiskBefore(i)
                            /\ DiskBefore(i)[TarPath].kind = "tar"
                    ELSE returns[i].error = "" <=>
                            \A k \in 1..Len(calls[i].files) :
                                calls[i].files[k] \in DOMAIN DiskBefore(i)

\* An extraction and a creation with suffix .xz were refused while the
\* scratch directory held an older file and the tar path an archive.
C26_Witness ==
    /\ Len(calls) = 2
    /\ calls[1].fn = "_extract_tarfile"
    /\ calls[2].fn = "_create_tarfile"
    /\ calls[1].compression = ".xz"
    /\ returns[2].error = "SigningScriptError"
    /\ StalePath \in DOMAIN disk
    /\ TarPath \in DOMAIN disk
    /\ disk[TarPath].kind = "tar"


\* The call of build_signtool_cmd returned a command.
CmdBuilt ==
    /\ call_fn = "build_signtool_cmd"
    /\ call_pc = "done"
    /\ call_result.error = ""

\* The positions in the roster of the backends of the task's tier that
\* support the format of the call.
CmdHostPositions ==
    LET certs == {i \in 1..Len(call_args.task.scopes) :
                        call_args.task.scopes[i] \in {DepScope, ReleaseScope}}
        tier  == IF call_args.task.scopes[CHOOSE i \in certs : TRUE] = DepScope
                 THEN DEP ELSE RELEASE
    IN  {i \in 1..Len(call_args.signing_servers[tier]) :
            call_args.fmt \in call_args.signing_servers[tier][i].formats}

\* The backends of the task's tier, in roster order.
CmdTier ==
    LET certs == {i \in 1..Len(call_args.task.scopes) :
                        call_args.task.scopes[i] \in {DepScope, ReleaseScope}}
    IN  call_args.signing_servers[IF call_args.task.scopes[CHOOSE i \in certs : TRUE] = DepScope
                                  THEN DEP ELSE RELEASE]

\* C27: the command built is the configured tool (the one text, or the
\* texts of the list), then -v, -n work_dir/nonce, -t work_dir/token,
\* -c cert, then -H address for each backend of the task's tier that
\* supports the format, in roster order and for no other, then -f format,
\* -o target, source, the target being the source when none is given.
C27_CommandLayout ==
    CmdBuilt =>
        LET cmd  == call_result.value
            tool == call_args.config.signtool.items
            n    == Len(tool)
            at   == CmdHostPositions
            h    == Cardinality(at)
            m    == n + 7 + 2 * h
        IN  /\ Len(cmd) = m + 5
            /\ SubSeq(cmd, 1, n) = tool
            /\ SubSeq(cmd, n + 1, n + 7)
                    = <<<<"-v">>, <<"-n">>, <<WorkDir, "nonce">>, <<"-t">>, <<WorkDir, "token">>,
                        <<"-c">>, <<"cert">>>>
            /\ \A k \in 1..h :
                    /\ cmd[n + 6 + 2 * k] = <<"-H">>
                    /\ cmd[n + 7 + 2 * k] = <<CmdTier[KthOf(at, k)].server>>
            /\ cmd[m + 1] = <<"-f">>
            /\ cmd[m + 2] = <<call_args.fmt>>
            /\ cmd[m + 3] = <<"-o">>
            /\ cmd[m + 4] = (IF call_args.to = <<>> THEN call_args.from_ ELSE call_args.to)
            /\ cmd[m + 5] = call_args.from_

\* A command was built from a tool given as a list of two texts, without a
\* target, for a format that the first and the third of three backends of
\* the tier support.
C27_Witness ==
    /\ CmdBuilt
    /\ Len(call_args.config.signtool.items) = 2
    /\ call_args.to = <<>>
    /\ Len(CmdTier) = 3
    /\ CmdHostPositions = {1, 3}
    /\ Len(call_result.value) = 18


\* The names the strategy classifies: every member of a zip, the members
\* of a tar that are files.
ListedNames ==
    {m.name : m \in {x \in Range(OrigMembers) : IsZipInput \/ x.data.kind # "dir"}}

\* The members that qualify: a blessed or non-blessed base name and no
\* <name>.sig beside it in the archive.
Qualifying ==
    {n \in ListedNames :
        /\ BlessedName(n) \/ NonBlessedName(n)
        /\ [n EXCEPT !.exts = Append(@, ".sig")] \notin ListedNames}

SubFormatOf(n) == IF BlessedName(n) THEN "widevine_blessed" ELSE "widevine"

\* The name of the member a scratch path was extracted from.
MemberOf(p) == [p EXCEPT !.dir = Tail(@)]

\* The signing commands run on the scratch copy of member n.
SigningsOf(n) ==
    {c \in 1..Len(cmds) :
        /\ cmds[c].cmd.tool = "signtool"
        /\ cmds[c].cmd.from_.dir # <<>>
        /\ MemberOf(cmds[c].cmd.from_) = n}

\* C28: in a Widevine batch every signing command is run on the scratch
\* copy of a qualifying member, with widevine_blessed for a blessed name
\* and widevine for a non-blessed name whatever format was requested for
\* the archive, and at most once per member; once the member signings have
\* been awaited without a failure, every qualifying member has been signed
\* exactly once.
C28_EachMemberOnceWithItsFormat ==
    /\ \A c \in 1..Len(cmds) :
            /\ cmds[c].cmd.tool = "signtool"
            /\ cmds[c].cmd.from_.dir # <<>>
            /\ cmds[c].cmd.from_.dir[1] = locals.tmp_dir
            /\ MemberOf(cmds[c].cmd.from_) \in Qualifying
            /\ cmds[c].cmd.fmt = SubFormatOf(MemberOf(cmds[c].cmd.from_))
    /\ \A n \in Qualifying : Cardinality(SigningsOf(n)) <= 1
    /\ (sign_pc = "awaiting" /\ frame.pc = "repack") =>
            \A n \in Qualifying :
                /\ Cardinality(SigningsOf(n)) = 1
                /\ \A c \in SigningsOf(n) : cmds[c].status = "ok"
    /\ (sign_pc = "awaiting" /\ frame.pc = "return") => \A n \in Qualifying : HasOp("create")

\* For an archive requested as widevine_blessed, a non-blessed member was
\* signed as widevine and a blessed member as widevine_blessed, beside a
\* member that does not qualify.
C28_Witness ==
    /\ sign_pc = "awaiting" /\ frame.pc = "repack"
    /\ sign_formats = <<"widevine_blessed">>
    /\ Len(cmds) = 2
    /\ {cmds[1].cmd.fmt, cmds[2].cmd.fmt} = {"widevine", "widevine_blessed"}
    /\ Cardinality(ListedNames) = 3


\* C29: once a member signing of a Widevine batch has failed, the archive
\* is never repacked: no create or append step is executed, and the file
\* at the original path keeps the members and the content it had when the
\* strategy started.
C29_FailedBatchLeavesArchive ==
    SomeTaskFailed =>
        /\ ~HasOp("create")
        /\ sign_path \in DOMAIN disk
        /\ disk[sign_path] = disk_in[sign_path]
        /\ ~(sign_pc = "awaiting" /\ frame.pc = "repack")

\* The batch of a tar archive ended in the failure of its second member
\* signing after the first had written its output.
C29_Witness ==
    /\ sign_pc = "raised"
    /\ sign_error = "FailedSubprocess"
    /\ IsTarInput
    /\ Len(tasks) = 2
    /\ tasks[1].state = "ok"
    /\ tasks[2].state = "FailedSubprocess"
    /\ disk[tasks[1].from_].ops # <<>>


\* C30: in one token acquisition every request goes to a suitable backend,
\* no backend is asked twice, no request follows the one that returned a
\* token, and the token file is written only at the end of a successful
\* acquisition: until then, and when the acquisition fails, it holds what
\* it held before; after it, exactly the token of the backend asked last.
C30_TokenFileOnlyOnSuccess ==
    /\ \A k \in 1..Len(requests) :
            /\ requests[k] \in SuitableIds
            /\ \A j \in 1..(k - 1) : requests[j] # requests[k]
            /\ k < Len(requests) => replies[requests[k]] # "token"
    /\ tok_pc # "done" => token_file = <<"stale">>
    /\ tok_pc = "done" =>
            /\ Len(requests) >= 1
            /\ replies[requests[Len(requests)]] = "token"
            /\ token_file = <<"token", requests[Len(requests)]>>

\* Of three suitable backends the first failed, the second returned the
\* token that was written, and the third was never asked.
C30_Witness ==
    /\ tok_pc = "done"
    /\ Len(tok_servers) = 3
    /\ Len(requests) = 2
    /\ replies[requests[1]] = "ScriptWorkerException"
    /\ token_file = <<"token", requests[2]>>


\* The members with a blessed or non-blessed base name.
Signable == {n \in ListedNames : BlessedName(n) \/ NonBlessedName(n)}

SigOf(n) == [n EXCEPT !.exts = Append(@, ".sig")]

\* The archive sign was given is a signed one: it has signable members and
\* each of them has its .sig beside it.
GivenSigned == Signable # {} /\ \A n \in Signable : SigOf(n) \in ListedNames

\* How many members of the archive now at the original path are named n.
MembersNamed(n) ==
    Cardinality({i \in 1..Len(disk[sign_path].members) : disk[sign_path].members[i].name = n})

\* C31: when sign_widevine runs, once per Widevine format, on an archive in
\* which every signable member already has its .sig, no run signs a member,
\* extracts for signing or repacks, every run returns the original path,
\* and the archive stays as it was: one .sig member per signable member
\* and no name twice.
C31_ResignIsNoOp ==
    (sign_pc # "idle" /\ GivenSigned) =>
        /\ cmds = <<>>
        /\ tasks = <<>>
        /\ ~HasOp("create")
        /\ sign_pc # "raised"
        /\ \A k \in 1..Len(returns) : returns[k] = Str(sign_path)
        /\ sign_path \in DOMAIN disk
        /\ disk[sign_path] = disk_in[sign_path]
        /\ \A n \in Signable : MembersNamed(SigOf(n)) = 1 /\ MembersNamed(n) = 1
        /\ \A i \in 1..Len(disk[sign_path].members) :
                MembersNamed(disk[sign_path].members[i].name) = 1

\* Both runs have returned for an archive that holds firefox, firefox.sig
\* and a member that is not signable.
C31_Witness ==
    /\ sign_pc = "done"
    /\ GivenSigned
    /\ Len(returns) = 2
    /\ Len(calls) = 2
    /\ calls[1].fmt # calls[2].fmt
    /\ Cardinality(ListedNames) = 3


\* C32: for every format list, repeats included, _sort_formats keeps every
\* format with its multiplicity, and applied to a list it has returned it
\* leaves the order as it is.
C32_SortIdempotent ==
    /\ [](\A f \in FormatIds : Count(formats, f) = Count(formats_in, f))
    /\ [][sf_pc = "returned" => formats' = formats]_vars

=============================================================================
